---- MODULE Spec2Model ----
(***************************************************************************)
(* Model of the crawl engine of seo-crawler-mcp: the UrlManager (frontier),*)
(* the CrawlOrchestrator lifecycle and page handlers, and the tables of    *)
(* CrawlDatabase that the orchestrator writes.                             *)
(*                                                                         *)
(* A URL string is modelled by the three pieces that the WHATWG parser     *)
(* (new URL) separates: the protocol token, the characters of the host     *)
(* name and the characters that follow the host (path, query, fragment).   *)
(* A string with an empty protocol stands for input that new URL rejects.  *)
(***************************************************************************)
EXTENDS Integers, Sequences, FiniteSets, Bags, TLC

\* ------------------------------------------------------------------------
\* Bounds of the model
\* ------------------------------------------------------------------------
\* Largest config.maxDepth the sessions are started with (schema: 1..10).
MaxDepthCfg == 2
\* Largest config.maxPages the sessions are started with (schema: 1..10000).
MaxPagesCfg == 2
\* Largest depth argument of a direct UrlManager.addDiscovered call.
MaxDepthArg == 1
\* Page handlers that the crawler runs at the same time (source: 5 to 20).
MaxConcurrency == 2
\* Retries of a request after its first attempt (source: 5).
maxRequestRetries == 1
\* Link edges that trigger a batch flush (source: 100).
LINK_BUFFER_SIZE == 3
\* Pages between two metadata snapshots (source: 10).
SnapshotEvery == 2
\* Failures (URLs whose fetch fails, storage write errors, start-up errors)
\* that the environment injects into one session.
MaxFaults == 1

\* ------------------------------------------------------------------------
\* URL strings
\* ------------------------------------------------------------------------
Str(p, h, r) == [protocol |-> p, hostname |-> h, rest |-> r]

\* The empty string (an absent optional sourceUrl is falsy like it).
EmptyStr == Str("", <<>>, <<>>)

\* Host names of the model: the crawled site, its www. alias, another site.
HostSite == <<"a", ".", "c">>
HostWww == <<"w", "w", "w", ".", "a", ".", "c">>
HostOther == <<"b", ".", "c">>

\* Number of characters of a protocol token ("https:" is 6 characters).
ProtocolLen(p) == IF p = "https:" THEN 6 ELSE IF p = "http:" THEN 5 ELSE 0

\* new URL(url) throws for a string without a scheme.
Parses(s) == s.protocol # ""

\* Index of the first character of r that is in cs, Len(r) + 1 if none.
RECURSIVE FirstOf(_, _, _)
FirstOf(r, cs, i) ==
  IF i > Len(r) THEN Len(r) + 1
  ELSE IF r[i] \in cs THEN i ELSE FirstOf(r, cs, i + 1)

\* URL.pathname: up to the first "?" or "#"; an empty path of an http(s)
\* URL is "/".
Pathname(s) ==
  LET p == SubSeq(s.rest, 1, FirstOf(s.rest, {"?", "#"}, 1) - 1)
  IN  IF p = <<>> THEN <<"/">> ELSE p

\* URL.search: from the first "?" up to the fragment; a lone "?" is "".
Search(s) ==
  LET q == FirstOf(s.rest, {"?", "#"}, 1)
      e == FirstOf(s.rest, {"#"}, 1)
      t == IF q <= Len(s.rest) /\ s.rest[q] = "?"
           THEN SubSeq(s.rest, q, e - 1) ELSE <<>>
  IN  IF Len(t) <= 1 THEN <<>> ELSE t

\* String.length of protocol + "//" + hostname + rest.
StrLen(s) == ProtocolLen(s.protocol) + 2 + Len(s.hostname) + Len(s.rest)

\* String.indexOf("://"): the protocol token ends with the colon.
IndexOfSep(s) == ProtocolLen(s.protocol) - 1

\* String.endsWith("/") of the whole string (the host has no slash).
EndsWithSlash(s) == Len(s.rest) > 0 /\ s.rest[Len(s.rest)] = "/"

\* hostname.replace(/^www\./, '')
StripWww(h) ==
  IF Len(h) >= 4 /\ SubSeq(h, 1, 4) = <<"w", "w", "w", ".">>
  THEN SubSeq(h, 5, Len(h)) ELSE h

\* ------------------------------------------------------------------------
\* UrlManager
\* ------------------------------------------------------------------------
normalizeUrl(url) ==
  IF ~Parses(url) THEN url
  ELSE LET clean == Str(url.protocol, url.hostname,
                        Pathname(url) \o Search(url))
       IN  IF EndsWithSlash(clean) /\ StrLen(clean) > IndexOfSep(clean) + 4
           THEN Str(clean.protocol, clean.hostname,
                    SubSeq(clean.rest, 1, Len(clean.rest) - 1))
           ELSE clean

\* normalizeDomain of the constructor argument (a bare host name).
normalizeDomain(domain) == StripWww(domain)

\* The base domain the UrlManager of a session is constructed with.
baseDomain == normalizeDomain(HostSite)

isInternal(url) ==
  IF ~Parses(url) THEN FALSE ELSE StripWww(url.hostname) = baseDomain

\* The three collections of a fresh UrlManager.
NewUrlManager ==
  [discovered |-> <<>>, visited |-> {}, sourcePagesMap |-> <<>>]

\* Map.set on a TLA+ function used as a Map.
MapSet(m, k, v) == [x \in (DOMAIN m) \cup {k} |-> IF x = k THEN v ELSE m[x]]

\* addDiscovered with the depth written unconditionally.
addDiscoveredOverwrite(um, url, depth, sourceUrl) ==
  LET normalized == normalizeUrl(url)
      s1 == IF sourceUrl # EmptyStr
            THEN LET old == IF normalized \in DOMAIN um.sourcePagesMap
                            THEN um.sourcePagesMap[normalized] ELSE {}
                 IN  MapSet(um.sourcePagesMap, normalized,
                            old \cup {normalizeUrl(sourceUrl)})
            ELSE um.sourcePagesMap
  IN  [um EXCEPT !.discovered = MapSet(@, normalized, depth),
                 !.sourcePagesMap = s1]

\* addDiscovered with the source set replaced by the new source.
addDiscoveredReplaceSources(um, url, depth, sourceUrl) ==
  LET normalized == normalizeUrl(url)
      d1 == IF normalized \notin DOMAIN um.discovered
            THEN MapSet(um.discovered, normalized, depth)
            ELSE um.discovered
      s1 == IF sourceUrl # EmptyStr
            THEN MapSet(um.sourcePagesMap, normalized,
                        {normalizeUrl(sourceUrl)})
            ELSE um.sourcePagesMap
  IN  [um EXCEPT !.discovered = d1, !.sourcePagesMap = s1]

addDiscovered(um, url, depth, sourceUrl) ==
  LET normalized == normalizeUrl(url)
      d1 == IF normalized \notin DOMAIN um.discovered
            THEN MapSet(um.discovered, normalized, depth)
            ELSE um.discovered
      s1 == IF sourceUrl # EmptyStr
            THEN LET normalizedSource == normalizeUrl(sourceUrl)
                     old == IF normalized \in DOMAIN um.sourcePagesMap
                            THEN um.sourcePagesMap[normalized] ELSE {}
                 IN  MapSet(um.sourcePagesMap, normalized,
                            old \cup {normalizedSource})
            ELSE um.sourcePagesMap
  IN  [um EXCEPT !.discovered = d1, !.sourcePagesMap = s1]

markVisited(um, url) ==
  [um EXCEPT !.visited = @ \cup {normalizeUrl(url)}]

isVisited(um, url) == normalizeUrl(url) \in um.visited

isDiscovered(um, url) == normalizeUrl(url) \in DOMAIN um.discovered

getSourcePages(um, url) ==
  LET normalized == normalizeUrl(url)
  IN  IF normalized \in DOMAIN um.sourcePagesMap
      THEN um.sourcePagesMap[normalized] ELSE {}

getDepth(um, url) ==
  LET normalized == normalizeUrl(url)
  IN  IF normalized \in DOMAIN um.discovered
      THEN um.discovered[normalized] ELSE 0

getTotalDiscovered(um) == Cardinality(DOMAIN um.discovered)

getMaxDepth(um) ==
  LET ds == {um.discovered[u] : u \in DOMAIN um.discovered} \cup {0}
  IN  CHOOSE m \in ds : \A d \in ds : d <= m

getUnvisitedUrls(um) == {u \in DOMAIN um.discovered : u \notin um.visited}

\* ------------------------------------------------------------------------
\* The crawled site: what LinkExtractor.extract returns for each page
\* ------------------------------------------------------------------------
Home == Str("https:", HostSite, <<"/">>)
PageA == Str("https:", HostSite, <<"/", "a">>)
PageB == Str("https:", HostSite, <<"/", "b">>)
PageC == Str("https:", HostSite, <<"/", "c">>)
Pdf == Str("https:", HostSite, <<"/", "d", ".", "p">>)
External == Str("https:", HostOther, <<"/">>)

\* One LinkData per anchor, in document order; n is the anchor's position
\* (it stands for anchorText / placement, which differ between anchors).
LinkData(src, tgt, n) == [sourceUrl |-> src, targetUrl |-> tgt, anchor |-> n]

\* The href of every anchor of a page, already resolved against the page.
Hrefs(url) ==
  IF url = Home THEN <<PageA, PageB, PageA, External>>
  ELSE IF url = PageA THEN <<PageC, Home, Pdf>>
  ELSE IF url = PageC THEN <<Home>>
  ELSE <<>>

\* The site answers PageB without a body (requestHandler then returns).
HasBody(url) == url # PageB

\* The href of every <link rel="alternate" hreflang> of a page, as written
\* in the page: the other site's page names its French version by a path.
HreflangHrefs(url) ==
  IF url = External THEN <<Str("", <<>>, <<"/", "f">>)>> ELSE <<>>

\* PageDataSchema.parse of the extracted data: each hreflang url must be a
\* URL (z.string().url()); ContentExtractor.extract throws otherwise.
PageDataSchemaAccepts(url) ==
  \A i \in 1..Len(HreflangHrefs(url)) : Parses(HreflangHrefs(url)[i])

\* LinkExtractor.cleanUrl: protocol, host name, path and query.
cleanUrl(url) == Str(url.protocol, url.hostname, Pathname(url) \o Search(url))

extractLinks(sourceUrl) ==
  [n \in 1..Len(Hrefs(sourceUrl)) |->
     LinkData(sourceUrl, cleanUrl(Hrefs(sourceUrl)[n]), n)]

\* ------------------------------------------------------------------------
\* State
\* ------------------------------------------------------------------------
VARIABLES
  config,                \* CrawlConfig of the session
  urlManager,            \* UrlManager: discovered, visited, sourcePagesMap
  metadata,              \* CrawlOrchestrator.metadata
  linkBuffer,            \* CrawlOrchestrator.linkBuffer
  memoryStorage,         \* CrawlOrchestrator.memoryStorage
  runPc,                 \* position of run()
  requestQueue,          \* the crawler's RequestQueue and handler frames
  handledRequestsCount,  \* requests the crawler has finished
  db,                    \* CrawlDatabase tables
  faults,                \* failures injected so far
  savePageCalls,         \* history: normalized URL of every savePageData
  appended,              \* history: every LinkData pushed to linkBuffer
  apiCall,               \* history: the last direct call of a component
  statusLog              \* history: the values metadata.status has taken

vars == <<config, urlManager, metadata, linkBuffer, memoryStorage, runPc,
          requestQueue, handledRequestsCount, db, faults, savePageCalls,
          appended, apiCall, statusLog>>

\* The configuration that run-seo-audit.ts builds around maxDepth/maxPages.
CrawlConfig(maxDepth, maxPages) ==
  [startUrl |-> Home, maxDepth |-> maxDepth, maxPages |-> maxPages,
   crawlExternal |-> FALSE,
   includeExtensions |-> {<<"h">>}, excludeExtensions |-> {<<"p">>},
   includePatterns |-> {}, excludePatterns |-> {}]

\* config.crawlId of the session: a random UUID, never a URL.
crawlId == Str("", <<>>, <<"i", "d">>)

createInitialMetadata ==
  [status |-> "queued",
   stats |-> [discovered |-> 0, crawled |-> 0, failed |-> 0, skipped |-> 0,
              depth |-> 0],
   errors |-> <<>>]

\* A database as initializeTables leaves it; crawl_metadata is keyed by the
\* crawl id, so one session has at most one row.
NoRow == [status |-> "none"]
NewDatabase == [crawl_metadata |-> NoRow, pages |-> <<>>,
                links |-> EmptyBag, errors |-> <<>>]

\* State shared by every specification before anything has run.
InitCommon ==
  /\ urlManager = NewUrlManager
  /\ metadata = createInitialMetadata
  /\ linkBuffer = <<>>
  /\ memoryStorage = "none"
  /\ runPc = "start"
  /\ requestQueue = <<>>
  /\ handledRequestsCount = 0
  /\ db = NewDatabase
  /\ faults = 0
  /\ savePageCalls = EmptyBag
  /\ appended = EmptyBag
  /\ apiCall = [op |-> "none"]
  /\ statusLog = <<"queued">>

Init ==
  /\ config \in {CrawlConfig(d, p) : d \in 1..MaxDepthCfg, p \in 1..MaxPagesCfg}
  /\ InitCommon

\* ------------------------------------------------------------------------
\* CrawlDatabase / CrawlStorage writes
\* ------------------------------------------------------------------------
\* INSERT OR REPLACE INTO crawl_metadata: status and counters; the errors
\* of the metadata object are not among the columns.
saveCrawlMetadata(d, md) ==
  [d EXCEPT !.crawl_metadata = [status |-> md.status, stats |-> md.stats]]

\* A variant that leaves the counter columns out of the UPDATE.
updateCrawlMetadataStatusOnly(d, md) ==
  IF d.crawl_metadata = NoRow THEN d
  ELSE [d EXCEPT !.crawl_metadata.status = md.status]

\* UPDATE crawl_metadata ... WHERE crawl_id = ?: no row, no change.
updateCrawlMetadata(d, md) ==
  IF d.crawl_metadata = NoRow THEN d
  ELSE [d EXCEPT !.crawl_metadata = [status |-> md.status, stats |-> md.stats]]

\* INSERT OR REPLACE INTO pages, url UNIQUE.
savePage(d, page) ==
  [d EXCEPT !.pages = MapSet(@, page.url,
                             [depth |-> page.depth,
                              linkedFrom |-> page.linkedFrom])]

\* The bag of the elements of a sequence.
RECURSIVE SeqToBag(_)
SeqToBag(q) ==
  IF q = <<>> THEN EmptyBag ELSE SetToBag({Head(q)}) (+) SeqToBag(Tail(q))

\* INSERT INTO links for every element, in one transaction.
saveLinks(d, links) ==
  IF Len(links) = 0 THEN d ELSE [d EXCEPT !.links = @ (+) SeqToBag(links)]

\* SELECT * FROM errors WHERE crawl_id = ? ORDER BY timestamp, each row
\* mapped to a CrawlError.
getAllErrors(d, id) ==
  LET rows == SelectSeq(d.errors, LAMBDA row : row.crawl_id = id)
  IN  [i \in 1..Len(rows) |->
         [url |-> rows[i].url, errorType |-> rows[i].error_type]]

\* SELECT * FROM crawl_metadata WHERE crawl_id = ?, with the errors rows;
\* the table holds at most the row of the session.
getCrawlMetadata(d, id) ==
  IF d.crawl_metadata = NoRow \/ id # crawlId THEN NoRow
  ELSE [status |-> d.crawl_metadata.status, stats |-> d.crawl_metadata.stats,
        errors |-> getAllErrors(d, id)]

\* ------------------------------------------------------------------------
\* CrawlOrchestrator: the filter
\* ------------------------------------------------------------------------
\* Index of the last "." of r, 0 if none.
RECURSIVE LastDot(_, _)
LastDot(r, i) ==
  IF i = 0 THEN 0 ELSE IF r[i] = "." THEN i ELSE LastDot(r, i - 1)

getFileExtension(url) ==
  IF ~Parses(url) THEN <<>>
  ELSE LET pathname == Pathname(url)
           k == LastDot(pathname, Len(pathname))
       IN  IF k > 0 THEN SubSeq(pathname, k + 1, Len(pathname)) ELSE <<>>

\* new RegExp(pattern).test(url) for a pattern of literal characters: the
\* pattern occurs in the characters after the host.
PatternTest(pattern, url) ==
  \E i \in 1..(Len(url.rest) - Len(pattern) + 1) :
    SubSeq(url.rest, i, i + Len(pattern) - 1) = pattern

\* shouldCrawlUrl without the test against the include list of extensions.
shouldCrawlUrlNoIncludeList(cfg, url) ==
  LET ext == getFileExtension(url)
  IN  IF ext # <<>> /\ ext \in cfg.excludeExtensions THEN FALSE
      ELSE IF cfg.excludePatterns # {}
              /\ \E p \in cfg.excludePatterns : PatternTest(p, url) THEN FALSE
      ELSE IF cfg.includePatterns # {}
              /\ ~\E p \in cfg.includePatterns : PatternTest(p, url) THEN FALSE
      ELSE IF ~cfg.crawlExternal /\ ~isInternal(url) THEN FALSE
      ELSE TRUE

shouldCrawlUrl(cfg, url) ==
  LET ext == getFileExtension(url)
  IN  IF ext # <<>> /\ ext \in cfg.excludeExtensions THEN FALSE
      ELSE IF ext # <<>> /\ cfg.includeExtensions # {}
              /\ ext \notin cfg.includeExtensions THEN FALSE
      ELSE IF cfg.excludePatterns # {}
              /\ \E p \in cfg.excludePatterns : PatternTest(p, url) THEN FALSE
      ELSE IF cfg.includePatterns # {}
              /\ ~\E p \in cfg.includePatterns : PatternTest(p, url) THEN FALSE
      ELSE IF ~cfg.crawlExternal /\ ~isInternal(url) THEN FALSE
      ELSE TRUE

\* ------------------------------------------------------------------------
\* The crawler (HttpCrawler over an isolated RequestQueue)
\* ------------------------------------------------------------------------
\* The key under which the RequestQueue de-duplicates a URL: the URL
\* without fragment and without the trailing slashes of its path.
RECURSIVE DropSlashes(_)
DropSlashes(r) ==
  IF r # <<>> /\ r[Len(r)] = "/" THEN DropSlashes(SubSeq(r, 1, Len(r) - 1))
  ELSE r

uniqueKey(url) ==
  Str(url.protocol, url.hostname, DropSlashes(Pathname(url)) \o Search(url))

NoPage == [url |-> EmptyStr]

\* A request as crawler.addRequests / crawler.run first enqueue it.
NewRequest(url) ==
  [url |-> url, state |-> "pending", retryCount |-> 0, pageData |-> NoPage,
   linksToAdd |-> <<>>, error |-> ""]

\* crawler.addRequests without de-duplication: every URL becomes a fresh
\* request.
RECURSIVE addRequestsNoDedup(_, _)
addRequestsNoDedup(q, urls) ==
  IF urls = <<>> THEN q
  ELSE LET k == uniqueKey(Head(urls))
           q1 == MapSet(q, k, NewRequest(Head(urls)))
       IN  addRequestsNoDedup(q1, Tail(urls))

\* crawler.addRequests(urls): a URL whose key is already queued is dropped.
RECURSIVE addRequests(_, _)
addRequests(q, urls) ==
  IF urls = <<>> THEN q
  ELSE LET k == uniqueKey(Head(urls))
           q1 == IF k \in DOMAIN q THEN q ELSE MapSet(q, k, NewRequest(Head(urls)))
       IN  addRequests(q1, Tail(urls))

\* Requests whose handler is running (fetching, or suspended at an await).
Active(q) == {k \in DOMAIN q : q[k].state \notin {"pending", "handled"}}
Pending(q) == {k \in DOMAIN q : q[k].state = "pending"}

\* maxRequestsPerCrawl: the pool starts no task once that many requests
\* have been handled.
isMaxPagesExceeded == config.maxPages <= handledRequestsCount

\* The attempt threw an error with the given message.
Errored(q, k, message) ==
  [q EXCEPT ![k].state = "errored", ![k].error = message]

\* The request is finished: marked handled and counted.
Handled(q, k) == [q EXCEPT ![k].state = "handled"]

\* ------------------------------------------------------------------------
\* CrawlOrchestrator.processPage
\* ------------------------------------------------------------------------
\* The link loop with the depth test letting a page at maxDepth register
\* its links.
RECURSIVE LinkLoopDepthOffByOne(_, _, _, _, _, _)
LinkLoopDepthOffByOne(cfg, url, currentDepth, links, i, acc) ==
  IF i > Len(links) THEN acc
  ELSE
    LET target == links[i].targetUrl
        next ==
          IF shouldCrawlUrl(cfg, target)
          THEN IF currentDepth <= cfg.maxDepth
               THEN [acc EXCEPT
                       !.um = IF ~isDiscovered(acc.um, target)
                              THEN addDiscovered(acc.um, target,
                                                 currentDepth + 1, url)
                              ELSE acc.um,
                       !.linksToAdd = Append(@, target)]
               ELSE [acc EXCEPT !.skipped = @ + 1]
          ELSE [acc EXCEPT !.skipped = @ + 1]
    IN  LinkLoopDepthOffByOne(cfg, url, currentDepth, links, i + 1, next)

\* The link loop passing accepted links on without registering them in the
\* frontier.
RECURSIVE LinkLoopUnregistered(_, _, _, _, _, _)
LinkLoopUnregistered(cfg, url, currentDepth, links, i, acc) ==
  IF i > Len(links) THEN acc
  ELSE
    LET target == links[i].targetUrl
        next ==
          IF shouldCrawlUrl(cfg, target)
          THEN IF currentDepth < cfg.maxDepth
               THEN [acc EXCEPT !.linksToAdd = Append(@, target)]
               ELSE [acc EXCEPT !.skipped = @ + 1]
          ELSE [acc EXCEPT !.skipped = @ + 1]
    IN  LinkLoopUnregistered(cfg, url, currentDepth, links, i + 1, next)

\* The link loop registering a link at the depth of the page that carries it.
RECURSIVE LinkLoopSameDepth(_, _, _, _, _, _)
LinkLoopSameDepth(cfg, url, currentDepth, links, i, acc) ==
  IF i > Len(links) THEN acc
  ELSE
    LET target == links[i].targetUrl
        next ==
          IF shouldCrawlUrl(cfg, target)
          THEN IF currentDepth < cfg.maxDepth
               THEN [acc EXCEPT
                       !.um = IF ~isDiscovered(acc.um, target)
                              THEN addDiscovered(acc.um, target,
                                                 currentDepth, url)
                              ELSE acc.um,
                       !.linksToAdd = Append(@, target)]
               ELSE [acc EXCEPT !.skipped = @ + 1]
          ELSE [acc EXCEPT !.skipped = @ + 1]
    IN  LinkLoopSameDepth(cfg, url, currentDepth, links, i + 1, next)

\* The loop over the extracted links (lines 209-224), link i onwards.
RECURSIVE LinkLoop(_, _, _, _, _, _)
LinkLoop(cfg, url, currentDepth, links, i, acc) ==
  IF i > Len(links) THEN acc
  ELSE
    LET target == links[i].targetUrl
        next ==
          IF shouldCrawlUrl(cfg, target)
          THEN IF currentDepth < cfg.maxDepth
               THEN [acc EXCEPT
                       !.um = IF ~isDiscovered(acc.um, target)
                              THEN addDiscovered(acc.um, target,
                                                 currentDepth + 1, url)
                              ELSE acc.um,
                       !.linksToAdd = Append(@, target)]
               ELSE [acc EXCEPT !.skipped = @ + 1]
          ELSE [acc EXCEPT !.skipped = @ + 1]
    IN  LinkLoop(cfg, url, currentDepth, links, i + 1, next)

\* What processPage holds at the end of the link loop: the frontier, the
\* skipped counter, the page record and linksToAdd.
Extracted(md, pageData, loop) ==
  [um |-> loop.um,
   md |-> [md EXCEPT !.stats.skipped = @ + loop.skipped],
   pageData |-> pageData,
   linksToAdd |-> loop.linksToAdd]

\* Lines 192-224 for a page of the given depth, um1 being the frontier after
\* markVisited.
ExtractAt(cfg, um1, md, url, currentDepth) ==
  Extracted(md,
            [url |-> url, depth |-> currentDepth,
             linkedFrom |-> getSourcePages(um1, url)],
            LinkLoop(cfg, url, currentDepth, extractLinks(url), 1,
                     [um |-> um1, skipped |-> 0, linksToAdd |-> <<>>]))

\* processPage from markVisited to the end of the link loop (lines 190-224).
Extract(cfg, um, md, url) ==
  ExtractAt(cfg, markVisited(um, url), md, url,
            getDepth(markVisited(um, url), url))

\* Lines 238-239: the counters after a page.
CountPage(md, um) ==
  [md EXCEPT !.stats.crawled = @ + 1,
             !.stats.discovered = getTotalDiscovered(um)]

\* Line 241: a snapshot is due.
SnapshotDue(md) == md.stats.crawled % SnapshotEvery = 0

\* The handler of request k is at the given position while the crawl runs.
At(k, st) ==
  /\ runPc = "crawling"
  /\ k \in DOMAIN requestQueue
  /\ requestQueue[k].state = st

\* The environment may still inject a failure.
MayFail == faults < MaxFaults

\* Lines 238-243: count the page; persist a snapshot when one is due and
\* suspend at its await, otherwise the handler returns.
FinishPage(k, d) ==
  LET md2 == CountPage(metadata, urlManager)
  IN  /\ metadata' = md2
      /\ IF SnapshotDue(md2)
         THEN /\ db' = updateCrawlMetadata(d, md2)
              /\ requestQueue' = [requestQueue EXCEPT ![k].state = "afterUpdate"]
              /\ UNCHANGED handledRequestsCount
         ELSE /\ db' = d
              /\ requestQueue' = Handled(requestQueue, k)
              /\ handledRequestsCount' = handledRequestsCount + 1

\* The autoscaled pool takes a pending request and starts its fetch.
CrawlerStartRequest(k) ==
  /\ At(k, "pending")
  /\ ~isMaxPagesExceeded
  /\ Cardinality(Active(requestQueue)) < MaxConcurrency
  /\ requestQueue' = [requestQueue EXCEPT ![k].state = "fetching"]
  /\ UNCHANGED <<config, apiCall, statusLog, urlManager, metadata, linkBuffer, memoryStorage,
                 runPc, handledRequestsCount, db, faults, savePageCalls,
                 appended>>

\* The fetch fails (timeout, DNS, connection, HTTP error status). A URL
\* whose fetch has timed out may time out again on its retries (the server
\* stays down): the failures of one URL's fetch count as one failure.
FetchFails(k) ==
  /\ At(k, "fetching")
  /\ MayFail \/ requestQueue[k].error = "timeout"
  /\ faults' = IF requestQueue[k].error = "timeout" THEN faults ELSE faults + 1
  /\ requestQueue' = Errored(requestQueue, k, "timeout")
  /\ UNCHANGED <<config, apiCall, statusLog, urlManager, metadata, linkBuffer, memoryStorage,
                 runPc, handledRequestsCount, db, savePageCalls, appended>>

\* requestHandler, line 111: no response or no body, return.
RequestHandlerNoBody(k) ==
  /\ At(k, "fetching")
  /\ ~HasBody(requestQueue[k].url)
  /\ requestQueue' = Handled(requestQueue, k)
  /\ handledRequestsCount' = handledRequestsCount + 1
  /\ UNCHANGED <<config, apiCall, statusLog, urlManager, metadata, linkBuffer, memoryStorage,
                 runPc, db, faults, savePageCalls, appended>>

\* The first await of processPage for the extraction result e: with links
\* to add that is crawler.addRequests, without it is storage.savePageData.
FirstAwait(k, e) ==
  /\ urlManager' = e.um
  /\ metadata' = e.md
  /\ IF e.linksToAdd # <<>>
     THEN /\ requestQueue' =
               [addRequests(requestQueue, e.linksToAdd) EXCEPT
                  ![k].state = "afterAddRequests",
                  ![k].pageData = e.pageData,
                  ![k].linksToAdd = e.linksToAdd]
          /\ UNCHANGED <<db, savePageCalls>>
     ELSE /\ requestQueue' =
               [requestQueue EXCEPT ![k].state = "afterSavePage",
                                    ![k].pageData = e.pageData]
          /\ db' = savePage(db, e.pageData)
          /\ savePageCalls' =
               savePageCalls (+) SetToBag({normalizeUrl(e.pageData.url)})

\* processPage up to its first await.
ProcessPageExtract(k) ==
  /\ At(k, "fetching")
  /\ HasBody(requestQueue[k].url)
  /\ PageDataSchemaAccepts(requestQueue[k].url)
  /\ FirstAwait(k, Extract(config, urlManager, metadata, requestQueue[k].url))
  /\ UNCHANGED <<config, apiCall, statusLog, linkBuffer, memoryStorage, runPc,
                 handledRequestsCount, faults, appended>>

\* processPage, lines 190-202: the page is marked visited, then
\* contentExtractor.extract throws the schema's validation error.
ContentExtractorThrows(k) ==
  /\ At(k, "fetching")
  /\ HasBody(requestQueue[k].url)
  /\ ~PageDataSchemaAccepts(requestQueue[k].url)
  /\ urlManager' = markVisited(urlManager, requestQueue[k].url)
  /\ requestQueue' = Errored(requestQueue, k, "Invalid url")
  /\ UNCHANGED <<config, apiCall, statusLog, metadata, linkBuffer,
                 memoryStorage, runPc, handledRequestsCount, db, faults,
                 savePageCalls, appended>>

\* processPage resumes after crawler.addRequests: storage.savePageData.
ProcessPageSave(k) ==
  /\ At(k, "afterAddRequests")
  /\ db' = savePage(db, requestQueue[k].pageData)
  /\ savePageCalls' =
       savePageCalls (+) SetToBag({normalizeUrl(requestQueue[k].pageData.url)})
  /\ requestQueue' = [requestQueue EXCEPT ![k].state = "afterSavePage"]
  /\ UNCHANGED <<config, apiCall, statusLog, urlManager, metadata, linkBuffer, memoryStorage,
                 runPc, handledRequestsCount, faults, appended>>

\* storage.savePageData is the first await of processPage, and it throws.
SavePageFirst(e) ==
  /\ e.linksToAdd = <<>>
  /\ urlManager' = e.um
  /\ metadata' = e.md

\* storage.savePageData throws (the write fails).
SavePageDataThrows(k) ==
  /\ MayFail
  /\ faults' = faults + 1
  /\ \/ /\ At(k, "afterAddRequests")
        /\ UNCHANGED <<urlManager, metadata>>
     \/ /\ At(k, "fetching")
        /\ HasBody(requestQueue[k].url)
        /\ PageDataSchemaAccepts(requestQueue[k].url)
        /\ SavePageFirst(Extract(config, urlManager, metadata,
                                 requestQueue[k].url))
  /\ requestQueue' = Errored(requestQueue, k, "write failed")
  /\ UNCHANGED <<config, apiCall, statusLog, linkBuffer, memoryStorage, runPc,
                 handledRequestsCount, db, savePageCalls, appended>>

\* processPage resumes after storage.savePageData (lines 232-243): push the
\* page's links; a full buffer is written and the handler suspends at the
\* await of saveLinkData, before the buffer is reset.
ProcessPageBuffer(k) ==
  /\ At(k, "afterSavePage")
  /\ LET links == extractLinks(requestQueue[k].url)
         buffer == linkBuffer \o links
     IN  /\ linkBuffer' = buffer
         /\ appended' = appended (+) SeqToBag(links)
         /\ IF Len(buffer) >= LINK_BUFFER_SIZE
            THEN /\ db' = saveLinks(db, buffer)
                 /\ requestQueue' =
                      [requestQueue EXCEPT ![k].state = "afterFlush"]
                 /\ UNCHANGED <<metadata, handledRequestsCount>>
            ELSE FinishPage(k, db)
  /\ UNCHANGED <<config, apiCall, statusLog, urlManager, memoryStorage, runPc, faults,
                 savePageCalls>>

\* storage.saveLinkData throws in processPage: the buffer keeps its edges.
SaveLinkDataThrows(k) ==
  /\ At(k, "afterSavePage")
  /\ MayFail
  /\ faults' = faults + 1
  /\ LET links == extractLinks(requestQueue[k].url)
         buffer == linkBuffer \o links
     IN  /\ Len(buffer) >= LINK_BUFFER_SIZE
         /\ linkBuffer' = buffer
         /\ appended' = appended (+) SeqToBag(links)
  /\ requestQueue' = Errored(requestQueue, k, "write failed")
  /\ UNCHANGED <<config, apiCall, statusLog, urlManager, metadata, memoryStorage, runPc,
                 handledRequestsCount, db, savePageCalls>>

\* processPage resumes after storage.saveLinkData (lines 235-243).
ProcessPageAfterFlush(k) ==
  /\ At(k, "afterFlush")
  /\ linkBuffer' = <<>>
  /\ FinishPage(k, db)
  /\ UNCHANGED <<config, apiCall, statusLog, urlManager, memoryStorage, runPc, faults,
                 savePageCalls, appended>>

\* storage.updateMetadata throws: the page is already counted.
UpdateMetadataThrows(k) ==
  /\ MayFail
  /\ faults' = faults + 1
  /\ SnapshotDue(CountPage(metadata, urlManager))
  /\ metadata' = CountPage(metadata, urlManager)
  /\ \/ /\ At(k, "afterFlush")
        /\ linkBuffer' = <<>>
        /\ UNCHANGED appended
     \/ /\ At(k, "afterSavePage")
        /\ LET links == extractLinks(requestQueue[k].url)
           IN  /\ Len(linkBuffer \o links) < LINK_BUFFER_SIZE
               /\ linkBuffer' = linkBuffer \o links
               /\ appended' = appended (+) SeqToBag(links)
  /\ requestQueue' = Errored(requestQueue, k, "write failed")
  /\ UNCHANGED <<config, apiCall, statusLog, urlManager, memoryStorage, runPc,
                 handledRequestsCount, db, savePageCalls>>

\* processPage resumes after storage.updateMetadata and returns.
ProcessPageEnd(k) ==
  /\ At(k, "afterUpdate")
  /\ requestQueue' = Handled(requestQueue, k)
  /\ handledRequestsCount' = handledRequestsCount + 1
  /\ UNCHANGED <<config, apiCall, statusLog, urlManager, metadata, linkBuffer, memoryStorage,
                 runPc, db, faults, savePageCalls, appended>>

\* The crawler retries a request whose attempt threw (maxRequestRetries).
ReclaimRequest(k) ==
  /\ At(k, "errored")
  /\ requestQueue[k].retryCount < maxRequestRetries
  /\ requestQueue' = [requestQueue EXCEPT ![k].state = "pending",
                                          ![k].retryCount = @ + 1,
                                          ![k].pageData = NoPage,
                                          ![k].linksToAdd = <<>>]
  /\ UNCHANGED <<config, apiCall, statusLog, urlManager, metadata, linkBuffer, memoryStorage,
                 runPc, handledRequestsCount, db, faults, savePageCalls,
                 appended>>

\* categorizeError on the messages of the model: a fetch that timed out, and
\* a storage write error, which matches no keyword.
categorizeError(message) == IF message = "timeout" THEN "timeout" ELSE "network"

\* handleFailedRequest that also marks the session failed.
handleFailedRequestFailsSession(k) ==
  /\ At(k, "errored")
  /\ requestQueue[k].retryCount >= maxRequestRetries
  /\ metadata' = [metadata EXCEPT
                    !.status = "failed",
                    !.stats.failed = @ + 1,
                    !.errors = Append(@, [url |-> requestQueue[k].url,
                                          errorType |->
                                            categorizeError(requestQueue[k].error)])]
  /\ requestQueue' = Handled(requestQueue, k)
  /\ handledRequestsCount' = handledRequestsCount + 1
  /\ UNCHANGED <<config, apiCall, statusLog, urlManager, linkBuffer,
                 memoryStorage, runPc, db, faults, savePageCalls, appended>>

\* handleFailedRequest that records the error without counting it.
handleFailedRequestUncounted(k) ==
  /\ At(k, "errored")
  /\ requestQueue[k].retryCount >= maxRequestRetries
  /\ metadata' = [metadata EXCEPT
                    !.errors = Append(@, [url |-> requestQueue[k].url,
                                          errorType |->
                                            categorizeError(requestQueue[k].error)])]
  /\ requestQueue' = Handled(requestQueue, k)
  /\ handledRequestsCount' = handledRequestsCount + 1
  /\ UNCHANGED <<config, apiCall, statusLog, urlManager, linkBuffer,
                 memoryStorage, runPc, db, faults, savePageCalls, appended>>

\* failedRequestHandler: the retry budget is exhausted.
handleFailedRequest(k) ==
  /\ At(k, "errored")
  /\ requestQueue[k].retryCount >= maxRequestRetries
  /\ metadata' = [metadata EXCEPT
                    !.stats.failed = @ + 1,
                    !.errors = Append(@, [url |-> requestQueue[k].url,
                                          errorType |->
                                            categorizeError(requestQueue[k].error)])]
  /\ requestQueue' = Handled(requestQueue, k)
  /\ handledRequestsCount' = handledRequestsCount + 1
  /\ UNCHANGED <<config, apiCall, statusLog, urlManager, linkBuffer, memoryStorage, runPc, db,
                 faults, savePageCalls, appended>>

\* ------------------------------------------------------------------------
\* CrawlOrchestrator.run
\* ------------------------------------------------------------------------
\* Line 131: initializeCrawler creates the MemoryStorage and RequestQueue.
RunInitializeCrawler ==
  /\ runPc = "start"
  /\ memoryStorage' = "open"
  /\ runPc' = "storageInit"
  /\ UNCHANGED <<config, apiCall, statusLog, urlManager, metadata, linkBuffer, requestQueue,
                 handledRequestsCount, db, faults, savePageCalls, appended>>

\* Line 131 throws (RequestQueue.open rejects).
RunInitializeCrawlerThrows ==
  /\ runPc = "start"
  /\ MayFail
  /\ faults' = faults + 1
  /\ memoryStorage' = "open"
  /\ runPc' = "catch"
  /\ UNCHANGED <<config, apiCall, statusLog, urlManager, metadata, linkBuffer, requestQueue,
                 handledRequestsCount, db, savePageCalls, appended>>

\* Line 134: storage.initialize(); the caller has opened the database
\* before, so the tables are there either way.
RunStorageInitialize ==
  /\ runPc = "storageInit"
  /\ runPc' = "markRunning"
  /\ UNCHANGED <<config, apiCall, statusLog, urlManager, metadata, linkBuffer, memoryStorage,
                 requestQueue, handledRequestsCount, db, faults,
                 savePageCalls, appended>>

\* Line 134 throws (mkdir or opening the database fails).
RunStorageInitializeThrows ==
  /\ runPc = "storageInit"
  /\ MayFail
  /\ faults' = faults + 1
  /\ runPc' = "catch"
  /\ UNCHANGED <<config, apiCall, statusLog, urlManager, metadata, linkBuffer, memoryStorage,
                 requestQueue, handledRequestsCount, db, savePageCalls,
                 appended>>

\* A variant of lines 137-146 that starts the crawler without the first
\* saveMetadata.
RunMarkRunningUnsaved ==
  /\ runPc = "markRunning"
  /\ metadata' = [metadata EXCEPT !.status = "running"]
  /\ db' = db
  /\ urlManager' = addDiscovered(urlManager, config.startUrl, 0, EmptyStr)
  /\ requestQueue' = addRequests(requestQueue, <<config.startUrl>>)
  /\ runPc' = "crawling"
  /\ statusLog' = Append(statusLog, "running")
  /\ UNCHANGED <<config, apiCall, linkBuffer, memoryStorage, handledRequestsCount,
                 faults, savePageCalls, appended>>

\* Lines 137-146: status running, first saveMetadata, the start URL goes
\* into the frontier at depth 0 and into the crawler.
RunMarkRunning ==
  /\ runPc = "markRunning"
  /\ LET md == [metadata EXCEPT !.status = "running"]
     IN  /\ metadata' = md
         /\ db' = saveCrawlMetadata(db, md)
  /\ urlManager' = addDiscovered(urlManager, config.startUrl, 0, EmptyStr)
  /\ requestQueue' = addRequests(requestQueue, <<config.startUrl>>)
  /\ runPc' = "crawling"
  /\ statusLog' = Append(statusLog, "running")
  /\ UNCHANGED <<config, apiCall, linkBuffer, memoryStorage, handledRequestsCount,
                 faults, savePageCalls, appended>>

\* Line 139 throws: the status is already running.
RunMarkRunningThrows ==
  /\ runPc = "markRunning"
  /\ MayFail
  /\ faults' = faults + 1
  /\ metadata' = [metadata EXCEPT !.status = "running"]
  /\ runPc' = "catch"
  /\ statusLog' = Append(statusLog, "running")
  /\ UNCHANGED <<config, apiCall, urlManager, linkBuffer, memoryStorage, requestQueue,
                 handledRequestsCount, db, savePageCalls, appended>>

\* Line 146: crawler.run resolves: no handler is running and either the
\* queue is empty or maxRequestsPerCrawl is reached.
CrawlerRunResolves ==
  /\ runPc = "crawling"
  /\ Active(requestQueue) = {}
  /\ Pending(requestQueue) = {} \/ isMaxPagesExceeded
  /\ runPc' = "crawled"
  /\ UNCHANGED <<config, apiCall, statusLog, urlManager, metadata, linkBuffer, memoryStorage,
                 requestQueue, handledRequestsCount, db, faults,
                 savePageCalls, appended>>

\* Line 146 throws (the crawler rejects).
CrawlerRunThrows ==
  /\ runPc = "crawling"
  /\ Active(requestQueue) = {}
  /\ MayFail
  /\ faults' = faults + 1
  /\ runPc' = "catch"
  /\ UNCHANGED <<config, apiCall, statusLog, urlManager, metadata, linkBuffer, memoryStorage,
                 requestQueue, handledRequestsCount, db, savePageCalls,
                 appended>>

\* Lines 149-163: final flush of the link buffer, status completed.
RunComplete ==
  /\ runPc = "crawled"
  /\ db' = IF Len(linkBuffer) > 0 THEN saveLinks(db, linkBuffer) ELSE db
  /\ linkBuffer' = <<>>
  /\ metadata' = [metadata EXCEPT !.status = "completed",
                                  !.stats.depth = getMaxDepth(urlManager)]
  /\ runPc' = "finalSave"
  /\ statusLog' = Append(statusLog, "completed")
  /\ UNCHANGED <<config, apiCall, urlManager, memoryStorage, requestQueue,
                 handledRequestsCount, faults, savePageCalls, appended>>

\* Line 150 throws: the final flush fails.
RunFinalFlushThrows ==
  /\ runPc = "crawled"
  /\ Len(linkBuffer) > 0
  /\ MayFail
  /\ faults' = faults + 1
  /\ runPc' = "catch"
  /\ UNCHANGED <<config, apiCall, statusLog, urlManager, metadata, linkBuffer, memoryStorage,
                 requestQueue, handledRequestsCount, db, savePageCalls,
                 appended>>

\* Lines 165-175: the catch block.
RunCatch ==
  /\ runPc = "catch"
  /\ metadata' = [metadata EXCEPT
                    !.status = "failed",
                    !.errors = Append(@, [url |-> EmptyStr,
                                          errorType |-> "unknown"])]
  /\ runPc' = "finalSave"
  /\ statusLog' = Append(statusLog, "failed")
  /\ UNCHANGED <<config, apiCall, urlManager, linkBuffer, memoryStorage, requestQueue,
                 handledRequestsCount, db, faults, savePageCalls, appended>>

\* Lines 176-180: nothing is cleaned up; saveMetadata, return.
RunFinalSave ==
  /\ runPc = "finalSave"
  /\ db' = saveCrawlMetadata(db, metadata)
  /\ runPc' = "returned"
  /\ UNCHANGED <<config, apiCall, statusLog, urlManager, metadata, linkBuffer, memoryStorage,
                 requestQueue, handledRequestsCount, faults, savePageCalls,
                 appended>>

\* Line 179 throws outside the try block: run() rejects.
RunFinalSaveThrows ==
  /\ runPc = "finalSave"
  /\ MayFail
  /\ faults' = faults + 1
  /\ runPc' = "rejected"
  /\ UNCHANGED <<config, apiCall, statusLog, urlManager, metadata, linkBuffer, memoryStorage,
                 requestQueue, handledRequestsCount, db, savePageCalls,
                 appended>>

\* The keys a request can have in the model.
Keys == {uniqueKey(u) : u \in {Home, PageA, PageB, PageC, Pdf, External}}

Next ==
  \/ RunInitializeCrawler
  \/ RunInitializeCrawlerThrows
  \/ RunStorageInitialize
  \/ RunStorageInitializeThrows
  \/ RunMarkRunning
  \/ RunMarkRunningThrows
  \/ CrawlerRunResolves
  \/ CrawlerRunThrows
  \/ RunComplete
  \/ RunFinalFlushThrows
  \/ RunCatch
  \/ RunFinalSave
  \/ RunFinalSaveThrows
  \/ \E k \in Keys : CrawlerStartRequest(k)
  \/ \E k \in Keys : FetchFails(k)
  \/ \E k \in Keys : RequestHandlerNoBody(k)
  \/ \E k \in Keys : ProcessPageExtract(k)
  \/ \E k \in Keys : ProcessPageSave(k)
  \/ \E k \in Keys : SavePageDataThrows(k)
  \/ \E k \in Keys : ProcessPageBuffer(k)
  \/ \E k \in Keys : SaveLinkDataThrows(k)
  \/ \E k \in Keys : ProcessPageAfterFlush(k)
  \/ \E k \in Keys : UpdateMetadataThrows(k)
  \/ \E k \in Keys : ProcessPageEnd(k)
  \/ \E k \in Keys : ReclaimRequest(k)
  \/ \E k \in Keys : handleFailedRequest(k)

Spec == Init /\ [][Next]_vars

\* ------------------------------------------------------------------------
\* Sessions that also crawl external links, without injected failures
\* ------------------------------------------------------------------------
InitExternalCrawl ==
  /\ config \in {[CrawlConfig(d, MaxPagesCfg) EXCEPT !.crawlExternal = TRUE] :
                   d \in 1..MaxDepthCfg}
  /\ InitCommon

NextExternalCrawl ==
  \/ RunInitializeCrawler
  \/ RunStorageInitialize
  \/ RunMarkRunning
  \/ CrawlerRunResolves
  \/ RunComplete
  \/ RunFinalSave
  \/ \E k \in Keys : CrawlerStartRequest(k)
  \/ \E k \in Keys : RequestHandlerNoBody(k)
  \/ \E k \in Keys : ContentExtractorThrows(k)
  \/ \E k \in Keys : ProcessPageExtract(k)
  \/ \E k \in Keys : ProcessPageSave(k)
  \/ \E k \in Keys : ProcessPageBuffer(k)
  \/ \E k \in Keys : ProcessPageAfterFlush(k)
  \/ \E k \in Keys : ProcessPageEnd(k)
  \/ \E k \in Keys : ReclaimRequest(k)
  \/ \E k \in Keys : handleFailedRequest(k)

SpecExternalCrawl == InitExternalCrawl /\ [][NextExternalCrawl]_vars

\* ------------------------------------------------------------------------
\* The UrlManager driven directly by its callers
\* ------------------------------------------------------------------------
PageASlash == Str("https:", HostSite, <<"/", "a", "/">>)
NotAUrl == Str("", <<>>, <<"x">>)
HomeBare == Str("https:", HostSite, <<>>)

\* URL and source arguments of the direct calls.
ApiUrls == {PageA, PageASlash, NotAUrl}
ApiSources == {EmptyStr, Home, HomeBare, PageB}

InitUrlManager ==
  /\ config = CrawlConfig(1, 1)
  /\ InitCommon

CallAddDiscovered(url, depth, sourceUrl) ==
  /\ urlManager' = addDiscovered(urlManager, url, depth, sourceUrl)
  /\ apiCall' = [op |-> "addDiscovered", url |-> url, depth |-> depth,
                 sourceUrl |-> sourceUrl,
                 wasDiscovered |-> isDiscovered(urlManager, url),
                 hadSource |-> normalizeUrl(sourceUrl) \in
                                 getSourcePages(urlManager, url),
                 oldDepth |-> getDepth(urlManager, url)]
  /\ UNCHANGED <<config, metadata, linkBuffer, memoryStorage, runPc,
                 requestQueue, handledRequestsCount, db, faults,
                 savePageCalls, appended, statusLog>>

CallMarkVisited(url) ==
  /\ urlManager' = markVisited(urlManager, url)
  /\ apiCall' = [op |-> "markVisited", url |-> url]
  /\ UNCHANGED <<config, metadata, linkBuffer, memoryStorage, runPc,
                 requestQueue, handledRequestsCount, db, faults,
                 savePageCalls, appended, statusLog>>

NextUrlManager ==
  \/ \E url \in ApiUrls, depth \in 0..MaxDepthArg, sourceUrl \in ApiSources :
       CallAddDiscovered(url, depth, sourceUrl)
  \/ \E url \in ApiUrls : CallMarkVisited(url)

SpecUrlManager == InitUrlManager /\ [][NextUrlManager]_vars

\* ------------------------------------------------------------------------
\* processPage driven page by page, under every filter configuration
\* ------------------------------------------------------------------------
\* Filter settings of a CrawlConfig: extension lists, patterns, crawlExternal.
FilterConfigs ==
  {[CrawlConfig(d, MaxPagesCfg) EXCEPT
      !.crawlExternal = x, !.includeExtensions = ie, !.excludeExtensions = ee,
      !.includePatterns = ip, !.excludePatterns = ep] :
     d \in 1..MaxDepthCfg, x \in BOOLEAN,
     ie \in {{}, {<<"h">>}}, ee \in {{}, {<<"p">>}},
     ip \in {{}, {<<"/", "a">>}}, ep \in {{}, {<<"/", "c">>}}}

InitProcessPage ==
  /\ config \in FilterConfigs
  /\ InitCommon

\* run(), lines 142-146: the start URL goes into the frontier and the queue.
CallSeedStartUrl ==
  /\ requestQueue = <<>>
  /\ urlManager' = addDiscovered(urlManager, config.startUrl, 0, EmptyStr)
  /\ requestQueue' = addRequests(requestQueue, <<config.startUrl>>)
  /\ apiCall' = [op |-> "seed"]
  /\ UNCHANGED <<config, metadata, linkBuffer, memoryStorage, runPc,
                 handledRequestsCount, db, faults, savePageCalls, appended,
                 statusLog>>

\* The synchronous part of processPage (lines 190-228) for queued request k.
CallProcessPage(k) ==
  /\ k \in DOMAIN requestQueue
  /\ requestQueue[k].state = "pending"
  /\ HasBody(requestQueue[k].url)
  /\ PageDataSchemaAccepts(requestQueue[k].url)
  /\ FirstAwait(k, Extract(config, urlManager, metadata, requestQueue[k].url))
  /\ apiCall' = [op |-> "processPage", key |-> k]
  /\ UNCHANGED <<config, linkBuffer, memoryStorage, runPc,
                 handledRequestsCount, faults, appended, statusLog>>

NextProcessPage ==
  \/ CallSeedStartUrl
  \/ \E k \in Keys : CallProcessPage(k)

SpecProcessPage == InitProcessPage /\ [][NextProcessPage]_vars

\* ------------------------------------------------------------------------
\* Properties
\* ------------------------------------------------------------------------
\* C2: depth is write-once: a URL that has a depth in the frontier keeps
\* that depth through every later addDiscovered (any depth, any source)
\* and every other frontier operation.
C2_DepthWriteOnce ==
  [][\A u \in DOMAIN urlManager.discovered :
        /\ u \in DOMAIN urlManager'.discovered
        /\ urlManager'.discovered[u] = urlManager.discovered[u]
        /\ getDepth(urlManager', u) = getDepth(urlManager, u)]_vars

\* C2 witness: addDiscovered was called for a URL that already had another
\* depth (through a different spelling of the URL), and the depth stayed.
C2_Witness ==
  /\ apiCall.op = "addDiscovered"
  /\ apiCall.wasDiscovered
  /\ apiCall.oldDepth # apiCall.depth
  /\ apiCall.url # normalizeUrl(apiCall.url)
  /\ getDepth(urlManager, apiCall.url) = apiCall.oldDepth

\* C1: at most one PageRecord is produced per normalized URL:
\* storage.savePageData is called at most once for it, whatever the
\* interleaving of the handlers and however often a request is retried.
C1_SavedAtMostOnce ==
  \A u \in BagToSet(savePageCalls) : CopiesIn(u, savePageCalls) <= 1

\* C3: no frontier entry and no PageRecord has a depth above
\* config.maxDepth, the start URL has depth 0, and the reported
\* stats.depth never exceeds maxDepth.
C3_DepthWithinMax ==
  /\ \A u \in DOMAIN urlManager.discovered :
       urlManager.discovered[u] <= config.maxDepth
  /\ \A p \in DOMAIN db.pages : db.pages[p].depth <= config.maxDepth
  /\ isDiscovered(urlManager, config.startUrl)
       => getDepth(urlManager, config.startUrl) = 0
  /\ getMaxDepth(urlManager) <= config.maxDepth
  /\ metadata.stats.depth <= config.maxDepth
  /\ db.crawl_metadata # NoRow
       => db.crawl_metadata.stats.depth <= config.maxDepth

\* C3 witness: a page at depth maxDepth has been persisted and a link of it
\* that the filter accepts was not registered in the frontier.
C3_Witness ==
  \E p \in DOMAIN db.pages :
    /\ db.pages[p].depth = config.maxDepth
    /\ \E n \in 1..Len(extractLinks(p)) :
         /\ shouldCrawlUrl(config, extractLinks(p)[n].targetUrl)
         /\ ~isDiscovered(urlManager, extractLinks(p)[n].targetUrl)

\* C4: the number of persisted PageRecords never exceeds config.maxPages,
\* also when several fetches are in flight when the cap is reached.
C4_AtMostMaxPages == Cardinality(DOMAIN db.pages) <= config.maxPages

\* run() has ended: it returned its metadata or it rejected.
RunEnded == runPc \in {"returned", "rejected"}

\* C5: every invocation of run() ends by returning a metadata object whose
\* status is completed or failed and which has been written to storage,
\* whatever step of run() threw.
C5_RunEndsPersisted ==
  RunEnded =>
    /\ runPc = "returned"
    /\ metadata.status \in {"completed", "failed"}
    /\ db.crawl_metadata =
         [status |-> metadata.status, stats |-> metadata.stats]

\* C6 as stated: the status changes only along queued -> running,
\* running -> completed and running -> failed.
C6_OnlyViaRunning ==
  [][metadata'.status # metadata.status =>
       <<metadata.status, metadata'.status>> \in
         {<<"queued", "running">>, <<"running", "completed">>,
          <<"running", "failed">>}]_vars

\* C6 amended: the status changes only along queued -> running,
\* running -> completed, running -> failed and queued -> failed (a failure
\* before the session was marked running); paused is never reached and a
\* completed or failed status never changes again.
C6_StatusTransitions ==
  [][/\ metadata'.status # metadata.status =>
          <<metadata.status, metadata'.status>> \in
            {<<"queued", "running">>, <<"running", "completed">>,
             <<"running", "failed">>, <<"queued", "failed">>}
     /\ metadata'.status # "paused"
     /\ metadata.status \in {"completed", "failed"} =>
          metadata'.status = metadata.status]_vars

\* C6 witness: a session that failed without ever having been running.
C6_Witness ==
  /\ statusLog = <<"queued", "failed">>
  /\ metadata.status = "failed"

\* C7: when run() returns with status completed the link rows in storage
\* are exactly the edges that the processed pages appended to the buffer
\* (as multisets: none lost, none written twice) and the buffer is empty.
\* Stated for the sessions in which nothing failed, where every handler
\* that appended has run to its end.
C7_LinksPersistedOnce ==
  (runPc = "returned" /\ metadata.status = "completed" /\ faults = 0) =>
    /\ db.links = appended
    /\ linkBuffer = <<>>

\* The errors recorded for a page URL.
ErrorsOf(url) ==
  {i \in 1..Len(metadata.errors) : metadata.errors[i].url = url}

\* C8: a request that exhausts its retry budget records exactly one
\* CrawlError for its URL and adds exactly 1 to stats.failed; it leaves the
\* status, the crawl and every other request as they are; the status
\* failed comes only with a session-level error, so a session in which
\* only pages failed ends completed.
C8_PageFailureContained ==
  /\ [][\A k \in Keys :
          (/\ At(k, "errored")
           /\ requestQueue[k].retryCount >= maxRequestRetries
           /\ requestQueue'[k].state = "handled")
          => /\ metadata'.stats.failed = metadata.stats.failed + 1
             /\ Len(metadata'.errors) = Len(metadata.errors) + 1
             /\ metadata'.errors[Len(metadata'.errors)].url
                  = requestQueue[k].url
             /\ SubSeq(metadata'.errors, 1, Len(metadata.errors))
                  = metadata.errors
             /\ metadata'.status = metadata.status
             /\ runPc' = "crawling"
             /\ \A j \in DOMAIN requestQueue \ {k} :
                  requestQueue'[j] = requestQueue[j]]_vars
  /\ [](/\ \A k \in DOMAIN requestQueue :
             Cardinality(ErrorsOf(requestQueue[k].url)) <= 1
        /\ metadata.stats.failed
             = Len(metadata.errors) - Cardinality(ErrorsOf(EmptyStr))
        /\ metadata.status = "failed" => ErrorsOf(EmptyStr) # {}
        /\ (runPc = "returned" /\ ErrorsOf(EmptyStr) = {})
             => metadata.status = "completed")

\* C8 witness: PageA exhausted its retry budget, is recorded as the one
\* failure, another page was processed and run() returned completed.
C8_Witness ==
  /\ runPc = "returned"
  /\ metadata.status = "completed"
  /\ metadata.stats.failed = 1
  /\ Cardinality(ErrorsOf(PageA)) = 1
  /\ metadata.stats.crawled >= 1

\* The CrawlErrors of pages (the session-level error has an empty url).
PageErrors(errors) == SelectSeq(errors, LAMBDA e : e.url # EmptyStr)

\* C9: every per-page failure is a durable CrawlError row: after run()
\* returns, the per-page errors read back from storage (getCrawlMetadata)
\* are exactly those recorded in memory, one per failed URL.
C9_ErrorsDurable ==
  runPc = "returned" =>
    /\ getCrawlMetadata(db, crawlId) # NoRow
    /\ PageErrors(getCrawlMetadata(db, crawlId).errors) = PageErrors(metadata.errors)

\* C10: on every exit path of run() the MemoryStorage that
\* initializeCrawler created has been purged.
C10_StoragePurged == RunEnded => memoryStorage \in {"none", "purged"}

\* The handler of request k passes its linksToAdd to crawler.addRequests in
\* this step.
CallsAddRequests(k) ==
  /\ k \in DOMAIN requestQueue
  /\ requestQueue[k].state = "fetching"
  /\ requestQueue'[k].state = "afterAddRequests"

C12_ProvenanceComplete ==
  \A k \in DOMAIN requestQueue :
    (/\ requestQueue[k].pageData # NoPage
     /\ requestQueue[k].pageData.depth < config.maxDepth) =>
      LET p == requestQueue[k].url
      IN  \A n \in 1..Len(extractLinks(p)) :
            shouldCrawlUrl(config, extractLinks(p)[n].targetUrl) =>
              normalizeUrl(p) \in
                getSourcePages(urlManager, extractLinks(p)[n].targetUrl)

\* C13: the source set of a frontier entry only grows: addDiscovered with
\* a source adds exactly that (normalized) source to the set of the URL, so
\* a second, different source gives a set of size 2 and a recorded source
\* leaves the set as it is; no frontier operation removes a source.
C13_SourcesGrowOnly ==
  [][/\ \A u \in DOMAIN urlManager.sourcePagesMap :
          /\ u \in DOMAIN urlManager'.sourcePagesMap
          /\ urlManager.sourcePagesMap[u] \subseteq urlManager'.sourcePagesMap[u]
     /\ apiCall'.op = "addDiscovered" =>
          getSourcePages(urlManager', apiCall'.url) =
            getSourcePages(urlManager, apiCall'.url) \cup
              (IF apiCall'.sourceUrl # EmptyStr
               THEN {normalizeUrl(apiCall'.sourceUrl)} ELSE {})]_vars

\* C13 witness: a URL has two sources, and the last addDiscovered repeated
\* one of them under another spelling.
C13_Witness ==
  /\ apiCall.op = "addDiscovered"
  /\ apiCall.sourceUrl = HomeBare
  /\ apiCall.hadSource
  /\ Cardinality(getSourcePages(urlManager, apiCall.url)) = 2

\* C14: visited is a subset of discovered: every URL that markVisited was
\* applied to is a key of the discovered map, so the unvisited URLs and the
\* visited set partition discovered.
C14_VisitedSubsetDiscovered ==
  /\ urlManager.visited \subseteq DOMAIN urlManager.discovered
  /\ getUnvisitedUrls(urlManager) \cup urlManager.visited =
       DOMAIN urlManager.discovered
  /\ getUnvisitedUrls(urlManager) \cap urlManager.visited = {}

\* C14 witness: pages other than the start page have been visited while
\* discovered URLs are still unvisited.
C14_Witness ==
  /\ Cardinality(urlManager.visited) >= 2
  /\ getUnvisitedUrls(urlManager) # {}

\* The URLs of the site that a crawl of the given depth can reach through
\* accepted links.
RECURSIVE ReachableWithin(_)
ReachableWithin(depth) ==
  IF depth = 0 THEN {config.startUrl}
  ELSE LET r == ReachableWithin(depth - 1)
       IN  r \cup {extractLinks(p)[n].targetUrl :
                     <<p, n>> \in {<<q, m>> \in r \X (1..4) :
                                     /\ m <= Len(extractLinks(q))
                                     /\ shouldCrawlUrl(config,
                                          extractLinks(q)[m].targetUrl)}}

\* C15: a truncated crawl is detectable: when more URLs are reachable
\* within maxDepth than maxPages and nothing failed, the session ends with
\* exactly maxPages PageRecords and with unvisited URLs in the frontier.
\* Stated for the sessions in which every fetched page came with a body.
C15_TruncatedCrawl ==
  (/\ runPc = "returned"
   /\ faults = 0
   /\ \A k \in DOMAIN requestQueue :
        requestQueue[k].state # "pending" => HasBody(requestQueue[k].url)
   /\ Cardinality({normalizeUrl(u) : u \in ReachableWithin(config.maxDepth)})
        > config.maxPages) =>
    /\ Cardinality(DOMAIN db.pages) = config.maxPages
    /\ getUnvisitedUrls(urlManager) # {}

\* The Filter rejects the URL: its extension is in the exclude list, or is
\* missing from a non-empty include list, or the URL matches an exclude
\* pattern, or matches no include pattern when there are some, or it is
\* external while crawlExternal is false.
FilterRejects(url) ==
  LET ext == getFileExtension(url)
  IN  \/ ext # <<>> /\ ext \in config.excludeExtensions
      \/ ext # <<>> /\ config.includeExtensions # {}
           /\ ext \notin config.includeExtensions
      \/ \E pt \in config.excludePatterns : PatternTest(pt, url)
      \/ config.includePatterns # {}
           /\ \A pt \in config.includePatterns : ~PatternTest(pt, url)
      \/ ~config.crawlExternal /\ ~isInternal(url)

\* The links of the page of request k that processPage skips: rejected by
\* the Filter, or found on a page whose depth is not below maxDepth.
SkippedLinks(k) ==
  LET links == extractLinks(requestQueue[k].url)
  IN  {n \in 1..Len(links) :
         \/ FilterRejects(links[n].targetUrl)
         \/ ~(getDepth(urlManager, requestQueue[k].url) < config.maxDepth)}

\* The targets of the links of the page of request k that are not skipped.
KeptTargets(k) ==
  LET links == extractLinks(requestQueue[k].url)
  IN  {links[n].targetUrl : n \in (1..Len(links)) \ SkippedLinks(k)}

\* C16: processing a page adds exactly 1 to stats.skipped for each link
\* that the Filter rejects and for each accepted link of a page whose depth
\* is not below maxDepth; such a link registers nothing in the frontier,
\* adds no source and enqueues nothing.
C16_RejectedLinksSkipped ==
  [][apiCall'.op = "processPage" =>
       LET k == apiCall'.key
       IN  /\ metadata'.stats.skipped =
                metadata.stats.skipped + Cardinality(SkippedLinks(k))
           /\ DOMAIN urlManager'.discovered \ DOMAIN urlManager.discovered
                \subseteq {normalizeUrl(t) : t \in KeptTargets(k)}
           /\ \A u \in DOMAIN urlManager'.sourcePagesMap :
                getSourcePages(urlManager', u) # getSourcePages(urlManager, u)
                  => u \in {normalizeUrl(t) : t \in KeptTargets(k)}
           /\ DOMAIN requestQueue' \ DOMAIN requestQueue
                \subseteq {uniqueKey(t) : t \in KeptTargets(k)}]_vars

\* C16 witness: a page at maxDepth has been processed; it has an accepted
\* link and a rejected one, both were counted as skipped and neither target
\* is in the frontier or in the queue.
C16_Witness ==
  /\ apiCall.op = "processPage"
  /\ requestQueue[apiCall.key].pageData.depth = config.maxDepth
  /\ metadata.stats.skipped >= 2
  /\ LET links == extractLinks(requestQueue[apiCall.key].url)
     IN  \E n, m \in 1..Len(links) :
           /\ ~FilterRejects(links[n].targetUrl)
           /\ FilterRejects(links[m].targetUrl)
           /\ \A j \in {n, m} :
                /\ ~isDiscovered(urlManager, links[j].targetUrl)
                /\ uniqueKey(links[j].targetUrl) \notin DOMAIN requestQueue

\* C17: no page fails because of its content: in a session without any
\* network or storage failure no request is retried and no page is recorded
\* as failed, and when run() returns every page that was fetched with a
\* body has its PageRecord.
C17_ContentNeverFailsPage ==
  /\ \A k \in DOMAIN requestQueue :
       /\ requestQueue[k].state # "errored"
       /\ requestQueue[k].retryCount = 0
  /\ metadata.stats.failed = 0
  /\ runPc = "returned" =>
       \A k \in DOMAIN requestQueue :
         (requestQueue[k].state = "handled" /\ HasBody(requestQueue[k].url))
           => requestQueue[k].url \in DOMAIN db.pages

\* C18: the counters that run() returns are accurate: stats.crawled is the
\* number of PageRecords persisted, stats.failed the number of per-page
\* CrawlErrors recorded, stats.discovered the number of frontier entries.
C18_CountersAccurate ==
  (runPc = "returned" /\ metadata.status = "completed") =>
    /\ metadata.stats.crawled = Cardinality(DOMAIN db.pages)
    /\ metadata.stats.failed = Len(PageErrors(metadata.errors))
    /\ metadata.stats.discovered = getTotalDiscovered(urlManager)

\* The handler step taken counts a page and the count becomes a multiple
\* of the snapshot period.
CrawledReachesMultiple ==
  /\ metadata'.stats.crawled # metadata.stats.crawled
  /\ SnapshotDue(metadata')

StartsAFetch ==
  \E k \in DOMAIN requestQueue :
    /\ requestQueue[k].state = "pending"
    /\ requestQueue'[k].state # "pending"

\* The row of the session says running and the frontier holds the start
\* URL at depth 0 without a source.
StartUpDone ==
  /\ db.crawl_metadata # NoRow
  /\ db.crawl_metadata.status = "running"
  /\ isDiscovered(urlManager, config.startUrl)
  /\ getDepth(urlManager, config.startUrl) = 0
  /\ getSourcePages(urlManager, config.startUrl) = {}

\* C20: no fetch starts, and no page is processed, before the metadata is
\* persisted with status running and the start URL is in the frontier at
\* depth 0 with an empty source set; the start URL is the only frontier
\* entry at depth 0, at any time.
C20_StartUpOrdering ==
  /\ [][StartsAFetch => StartUpDone]_vars
  /\ []((Active(requestQueue) # {} \/ DOMAIN db.pages # {}
          \/ urlManager.visited # {}) =>
         /\ db.crawl_metadata # NoRow
         /\ \E i \in 1..Len(statusLog) : statusLog[i] = "running"
         /\ isDiscovered(urlManager, config.startUrl))
  /\ [](\A u \in DOMAIN urlManager.discovered :
          urlManager.discovered[u] = 0 => u = normalizeUrl(config.startUrl))

\* Pages have been processed and have registered their links: the frontier
\* holds the start URL at depth 0 and other entries, all deeper.
C20_Witness ==
  /\ DOMAIN db.pages # {}
  /\ Active(requestQueue) # {}
  /\ getDepth(urlManager, config.startUrl) = 0
  /\ \E u \in DOMAIN urlManager.discovered : urlManager.discovered[u] = 2

\* ------------------------------------------------------------------------
\* The CrawlDatabase called directly, its transactions row by row
\* ------------------------------------------------------------------------
\* Bounds of the direct calls: rows of one batch, rows of the links table.
MaxBatch == 2
MaxRows == 3

\* Sequences over S of length at most n.
SeqsUpTo(S, n) == UNION {[1..m -> S] : m \in 0..n}

\* Rows offered to saveLinks: two anchors of the start page with the same
\* target, and a link of another page.
ApiLinks == {LinkData(Home, PageA, 1), LinkData(Home, PageA, 3),
             LinkData(PageA, PageC, 1)}

\* Rows offered to savePageBatch: two records of one URL and another URL.
ApiPages == {[url |-> PageA, depth |-> 1, linkedFrom |-> {}],
             [url |-> PageA, depth |-> 2, linkedFrom |-> {Home}],
             [url |-> PageC, depth |-> 2, linkedFrom |-> {}]}

\* A loop body that stores one row per (source, target) pair.
RunRowDistinctPair(view, op, row) ==
  IF op = "saveLinks"
  THEN IF \E r \in BagToSet(view.links) :
            r.sourceUrl = row.sourceUrl /\ r.targetUrl = row.targetUrl
       THEN view
       ELSE [view EXCEPT !.links = @ (+) SetToBag({row})]
  ELSE savePage(view, row)

\* One statement of the loop body applied to the connection's view.
RunRow(view, op, row) ==
  IF op = "saveLinks" THEN [view EXCEPT !.links = @ (+) SetToBag({row})]
  ELSE savePage(view, row)

\* The loop of a batch from row i on, applied to a database.
RECURSIVE RunRows(_, _, _, _)
RunRows(d, op, batch, i) ==
  IF i > Len(batch) THEN d
  ELSE RunRows(RunRow(d, op, batch[i]), op, batch, i + 1)

\* The loop run outside a transaction: every statement commits by itself.
transactionAbsent(committed, view) == view

\* this.db.transaction(fn): what other connections (and a reopened file)
\* see after a statement of fn has run and before COMMIT is the committed
\* database, whatever the connection's own view.
transaction(committed, view) == committed

InitDatabase ==
  /\ config = CrawlConfig(1, 1)
  /\ InitCommon

\* saveLinks and savePageBatch up to BEGIN; saveLinks returns at once for
\* an empty array.
CallBatchWrite(op, batch) ==
  /\ apiCall.op \in {"none", "committed", "rolledBack", "reopened"}
  /\ op = "saveLinks" =>
       BagCardinality(db.links) + Len(batch) <= MaxRows
  /\ apiCall' = IF op = "saveLinks" /\ Len(batch) = 0
                THEN [op |-> "committed", kind |-> op, batch |-> batch,
                      written |-> 0, before |-> db]
                ELSE [op |-> op, batch |-> batch, written |-> 0,
                      view |-> db, before |-> db]
  /\ UNCHANGED <<config, statusLog, urlManager, metadata, linkBuffer,
                 memoryStorage, runPc, requestQueue, handledRequestsCount,
                 db, faults, savePageCalls, appended>>

InBatch == apiCall.op \in {"saveLinks", "savePageBatch"}

\* One iteration of the loop inside the transaction function.
TransactionRunRow ==
  /\ InBatch
  /\ apiCall.written < Len(apiCall.batch)
  /\ LET view == RunRow(apiCall.view, apiCall.op,
                        apiCall.batch[apiCall.written + 1])
     IN  /\ apiCall' = [apiCall EXCEPT !.written = @ + 1, !.view = view]
         /\ db' = transaction(db, view)
  /\ UNCHANGED <<config, statusLog, urlManager, metadata, linkBuffer,
                 memoryStorage, runPc, requestQueue, handledRequestsCount,
                 faults, savePageCalls, appended>>

\* A statement throws (constraint, full disk): the wrapper rolls back and
\* rethrows.
TransactionRowFails ==
  /\ InBatch
  /\ apiCall.written < Len(apiCall.batch)
  /\ db' = transaction(db, apiCall.before)
  /\ apiCall' = [op |-> "rolledBack", kind |-> apiCall.op,
                 batch |-> apiCall.batch, written |-> apiCall.written,
                 before |-> apiCall.before]
  /\ UNCHANGED <<config, statusLog, urlManager, metadata, linkBuffer,
                 memoryStorage, runPc, requestQueue, handledRequestsCount,
                 faults, savePageCalls, appended>>

\* The function returned: COMMIT publishes the connection's view.
TransactionCommit ==
  /\ InBatch
  /\ apiCall.written = Len(apiCall.batch)
  /\ db' = apiCall.view
  /\ apiCall' = [op |-> "committed", kind |-> apiCall.op,
                 batch |-> apiCall.batch, written |-> apiCall.written,
                 before |-> apiCall.before]
  /\ UNCHANGED <<config, statusLog, urlManager, metadata, linkBuffer,
                 memoryStorage, runPc, requestQueue, handledRequestsCount,
                 faults, savePageCalls, appended>>

\* The process dies inside the batch and the file is opened again: the
\* write-ahead log holds no COMMIT for the rows written, they are dropped.
CrashAndReopen ==
  /\ InBatch
  /\ apiCall' = [op |-> "reopened", kind |-> apiCall.op,
                 batch |-> apiCall.batch, written |-> apiCall.written,
                 before |-> apiCall.before]
  /\ UNCHANGED <<config, statusLog, urlManager, metadata, linkBuffer,
                 memoryStorage, runPc, requestQueue, handledRequestsCount,
                 db, faults, savePageCalls, appended>>

NextDatabase ==
  \/ \E batch \in SeqsUpTo(ApiLinks, MaxBatch) :
       CallBatchWrite("saveLinks", batch)
  \/ \E batch \in SeqsUpTo(ApiPages, MaxBatch) :
       CallBatchWrite("savePageBatch", batch)
  \/ TransactionRunRow
  \/ TransactionRowFails
  \/ TransactionCommit
  \/ CrashAndReopen

SpecDatabase == InitDatabase /\ [][NextDatabase]_vars

\* C21: a reader of the database sees, of a saveLinks or savePageBatch
\* call, either nothing or the whole batch: the visible database changes
\* only by a complete batch, and after a failed row or a crash inside the
\* batch it is the database of before the call.
C21_BatchAllOrNothing ==
  /\ [][InBatch =>
          \/ db' = db
          \/ db' = RunRows(apiCall.before, apiCall.op, apiCall.batch, 1)]_vars
  /\ [](apiCall.op \in {"rolledBack", "reopened"} => db = apiCall.before)
  /\ [](InBatch => db = apiCall.before)

\* A batch of two rows failed, or the process died, after its first row
\* had been written, on a database that already held rows.
C21_Witness ==
  /\ apiCall.op \in {"rolledBack", "reopened"}
  /\ Len(apiCall.batch) = 2
  /\ apiCall.written = 1
  /\ db.links # EmptyBag

\* The step is the return of a saveLinks call that did not throw.
SaveLinksReturns ==
  /\ apiCall'.op = "committed"
  /\ apiCall.op # "committed" \/ apiCall' # apiCall
  /\ apiCall'.kind = "saveLinks"

\* C22: the links table is append-only and not de-duplicated: a saveLinks
\* call that returns has added exactly one row per element of its array,
\* also for a (source, target) pair that is already stored or repeated in
\* the array, and no step changes or removes a stored row; the two anchors
\* of the start page that point at the same target are two different rows.
C22_LinksAppendOnly ==
  /\ [][SaveLinksReturns =>
          /\ BagCardinality(db'.links) =
               BagCardinality(apiCall'.before.links) + Len(apiCall'.batch)
          /\ db'.links = apiCall'.before.links (+) SeqToBag(apiCall'.batch)]_vars
  /\ [][db.links \sqsubseteq db'.links]_vars
  /\ [](/\ extractLinks(Home)[1] \in ApiLinks
        /\ extractLinks(Home)[3] \in ApiLinks
        /\ extractLinks(Home)[1].targetUrl = extractLinks(Home)[3].targetUrl
        /\ extractLinks(Home)[1] # extractLinks(Home)[3])

\* A saveLinks call has returned whose array held the second anchor of the
\* start page to a target while the first anchor's row was already stored:
\* both rows are there.
C22_Witness ==
  /\ apiCall.op = "committed"
  /\ apiCall.kind = "saveLinks"
  /\ \E i \in 1..Len(apiCall.batch) : apiCall.batch[i] = extractLinks(Home)[3]
  /\ BagIn(extractLinks(Home)[1], apiCall.before.links)
  /\ BagIn(extractLinks(Home)[1], db.links)
  /\ BagIn(extractLinks(Home)[3], db.links)

\* ------------------------------------------------------------------------
\* Opening a database file: CrawlDatabase.constructor and its migration
\* ------------------------------------------------------------------------
\* Number of columns migrateToEnhancedSchema adds (15 in the source), in
\* the order of its ALTER statements.
NumEnhancedColumns == 4
EnhancedColumns == 1..NumEnhancedColumns

\* A catch block that swallows nothing.
catchAlterRethrowsAll(message) == FALSE

\* catch (e) { if (!e.message.includes('duplicate column name')) throw e; }
\* TRUE when the error is swallowed.
catchAlter(message) == message = "duplicate column name"

\* A pages table with one row, as an earlier session left it.
DatabaseWithRow ==
  savePage(NewDatabase, [url |-> Home, depth |-> 0, linkedFrom |-> {}])

\* A file written by any earlier schema version: it has any subset of the
\* added columns, and rows or none.
InitMigration ==
  /\ config = CrawlConfig(1, 1)
  /\ urlManager = NewUrlManager
  /\ metadata = createInitialMetadata
  /\ linkBuffer = <<>>
  /\ memoryStorage = "none"
  /\ runPc = "start"
  /\ requestQueue = <<>>
  /\ handledRequestsCount = 0
  /\ db \in {NewDatabase, DatabaseWithRow}
  /\ faults = 0
  /\ savePageCalls = EmptyBag
  /\ appended = EmptyBag
  /\ statusLog = <<"queued">>
  /\ \E cols \in SUBSET EnhancedColumns :
       apiCall = [op |-> "closed", columns |-> cols, before |-> cols,
                  next |-> 1, error |-> ""]

\* new CrawlDatabase(path): initializeTables (CREATE ... IF NOT EXISTS
\* changes no existing table), then the first ALTER is next.
ConstructorOpens ==
  /\ apiCall.op \in {"closed", "open", "openFailed"}
  /\ apiCall' = [apiCall EXCEPT !.op = "migrating", !.before = apiCall.columns,
                                !.next = 1, !.error = ""]
  /\ UNCHANGED <<config, statusLog, urlManager, metadata, linkBuffer,
                 memoryStorage, runPc, requestQueue, handledRequestsCount,
                 db, faults, savePageCalls, appended>>

\* The result of one try { ALTER TABLE pages ADD COLUMN c } catch for the
\* error the statement raised ("" for none).
AfterAlter(call, message) ==
  IF message = ""
  THEN [call EXCEPT !.columns = @ \cup {call.next}, !.next = @ + 1]
  ELSE IF catchAlter(message) THEN [call EXCEPT !.next = @ + 1]
  ELSE [call EXCEPT !.op = "openFailed", !.error = message]

\* One ALTER of migrateToEnhancedSchema: SQLite refuses a column that
\* exists; for a missing column the statement succeeds or fails for
\* another reason (locked or read-only file, full disk).
MigrateAlter ==
  /\ apiCall.op = "migrating"
  /\ apiCall.next <= NumEnhancedColumns
  /\ \E message \in IF apiCall.next \in apiCall.columns
                    THEN {"duplicate column name"}
                    ELSE {"", "database is locked"} :
       apiCall' = AfterAlter(apiCall, message)
  /\ UNCHANGED <<config, statusLog, urlManager, metadata, linkBuffer,
                 memoryStorage, runPc, requestQueue, handledRequestsCount,
                 db, faults, savePageCalls, appended>>

\* The constructor returns.
ConstructorReturns ==
  /\ apiCall.op = "migrating"
  /\ apiCall.next > NumEnhancedColumns
  /\ apiCall' = [apiCall EXCEPT !.op = "open"]
  /\ UNCHANGED <<config, statusLog, urlManager, metadata, linkBuffer,
                 memoryStorage, runPc, requestQueue, handledRequestsCount,
                 db, faults, savePageCalls, appended>>

NextMigration ==
  \/ ConstructorOpens
  \/ MigrateAlter
  \/ ConstructorReturns

SpecMigration == InitMigration /\ [][NextMigration]_vars

\* C23: an open that succeeds has added exactly the columns that were
\* missing when it began, whatever subset the file had; no step of an open
\* removes a column or touches a row; an open of a file that has every
\* column changes nothing; an open fails only for an ALTER error other than
\* "duplicate column name", and such an error always fails it.
C23_MigrationAdditiveIdempotent ==
  /\ [](apiCall.op = "open" =>
          /\ apiCall.columns = EnhancedColumns
          /\ apiCall.columns \ apiCall.before =
               EnhancedColumns \ apiCall.before)
  /\ [][/\ apiCall.columns \subseteq apiCall'.columns
        /\ db' = db
        /\ apiCall.columns = EnhancedColumns =>
             apiCall'.columns = apiCall.columns]_vars
  /\ [](apiCall.op = "openFailed" =>
          /\ apiCall.error # ""
          /\ apiCall.error # "duplicate column name")
  /\ [][(apiCall.op = "migrating" /\ apiCall'.op = "migrating") =>
          apiCall'.error = ""]_vars

\* A file that had some of the added columns, not all, and rows, has been
\* opened with success.
C23_Witness ==
  /\ apiCall.op = "open"
  /\ apiCall.before # {}
  /\ apiCall.before # EnhancedColumns
  /\ db = DatabaseWithRow

\* ------------------------------------------------------------------------
\* UrlManager.normalizeUrl applied to arbitrary strings
\* ------------------------------------------------------------------------
\* Longest path-and-query part of an input string.
MaxRestLen == 3

\* Input strings: with and without a scheme, with and without the www.
\* prefix, every path / query / fragment over a small alphabet.
NormalizeInputs ==
  {Str(p, h, r) : p \in {"https:", ""}, h \in {HostSite, HostWww},
                  r \in SeqsUpTo({"/", "a", "?", "#"}, MaxRestLen)}

\* The same URL on the host with, or without, the www. prefix.
WwwAlias(url) ==
  IF StripWww(url.hostname) # url.hostname
  THEN Str(url.protocol, StripWww(url.hostname), url.rest)
  ELSE Str(url.protocol, <<"w", "w", "w", ".">> \o url.hostname, url.rest)

InitNormalizeUrl ==
  /\ config = CrawlConfig(1, 1)
  /\ urlManager = NewUrlManager
  /\ metadata = createInitialMetadata
  /\ linkBuffer = <<>>
  /\ memoryStorage = "none"
  /\ runPc = "start"
  /\ requestQueue = <<>>
  /\ handledRequestsCount = 0
  /\ db = NewDatabase
  /\ faults = 0
  /\ savePageCalls = EmptyBag
  /\ appended = EmptyBag
  /\ statusLog = <<"queued">>
  /\ \E u \in NormalizeInputs :
       apiCall = [op |-> "input", url |-> u, once |-> u, twice |-> u]

\* normalizeUrl(url)
CallNormalizeUrl ==
  /\ apiCall.op = "input"
  /\ apiCall' = [apiCall EXCEPT !.op = "normalized",
                                !.once = normalizeUrl(apiCall.url)]
  /\ UNCHANGED <<config, statusLog, urlManager, metadata, linkBuffer,
                 memoryStorage, runPc, requestQueue, handledRequestsCount,
                 db, faults, savePageCalls, appended>>

\* normalizeUrl of the result of the first call.
CallNormalizeUrlAgain ==
  /\ apiCall.op = "normalized"
  /\ apiCall' = [apiCall EXCEPT !.op = "renormalized",
                                !.twice = normalizeUrl(apiCall.once)]
  /\ UNCHANGED <<config, statusLog, urlManager, metadata, linkBuffer,
                 memoryStorage, runPc, requestQueue, handledRequestsCount,
                 db, faults, savePageCalls, appended>>

\* addDiscovered(url, 1) on a fresh UrlManager.
CallAddDiscoveredInput ==
  /\ apiCall.op = "input"
  /\ urlManager' = addDiscovered(urlManager, apiCall.url, 1, EmptyStr)
  /\ apiCall' = [apiCall EXCEPT !.op = "registered"]
  /\ UNCHANGED <<config, statusLog, metadata, linkBuffer,
                 memoryStorage, runPc, requestQueue, handledRequestsCount,
                 db, faults, savePageCalls, appended>>

\* addDiscovered(alias, 2, PageA) and markVisited(alias) for the same URL
\* on the other spelling of the host.
CallAddDiscoveredAlias ==
  /\ apiCall.op = "registered"
  /\ urlManager' = markVisited(addDiscovered(urlManager, WwwAlias(apiCall.url),
                                             2, PageA),
                               WwwAlias(apiCall.url))
  /\ apiCall' = [apiCall EXCEPT !.op = "aliasRegistered"]
  /\ UNCHANGED <<config, statusLog, metadata, linkBuffer,
                 memoryStorage, runPc, requestQueue, handledRequestsCount,
                 db, faults, savePageCalls, appended>>

NextNormalizeUrl ==
  \/ CallNormalizeUrl
  \/ CallNormalizeUrlAgain
  \/ CallAddDiscoveredInput
  \/ CallAddDiscoveredAlias

SpecNormalizeUrl == InitNormalizeUrl /\ [][NextNormalizeUrl]_vars

\* C24: normalizeUrl is idempotent: normalizing the result of normalizeUrl
\* gives that result again, for every input string.
C24_NormalizeIdempotent ==
  apiCall.op = "renormalized" => apiCall.twice = apiCall.once

\* C25: two URLs that differ only by the www. prefix of the host have one
\* normalized form and share one frontier entry: one depth, one visited
\* mark, one source set.
C25_WwwAgnostic ==
  (apiCall.op = "aliasRegistered" /\ Parses(apiCall.url)) =>
    /\ normalizeUrl(WwwAlias(apiCall.url)) = normalizeUrl(apiCall.url)
    /\ getTotalDiscovered(urlManager) = 1
    /\ getDepth(urlManager, WwwAlias(apiCall.url)) =
         getDepth(urlManager, apiCall.url)
    /\ isVisited(urlManager, apiCall.url)
    /\ getSourcePages(urlManager, apiCall.url) =
         getSourcePages(urlManager, WwwAlias(apiCall.url))

\* The path of a URL without one trailing slash, the bare origin's "/" kept.
PathWithoutTrailingSlash(path) ==
  IF path # <<"/">> /\ path[Len(path)] = "/"
  THEN SubSeq(path, 1, Len(path) - 1) ELSE path

\* C26: for a parsable URL normalizeUrl returns scheme, host, the path
\* without one trailing slash (the bare origin keeps its "/") and the query
\* string unchanged, without the fragment.
C26_NormalForm ==
  (apiCall.op = "normalized" /\ Parses(apiCall.url)) =>
    /\ apiCall.once.protocol = apiCall.url.protocol
    /\ apiCall.once.rest =
         PathWithoutTrailingSlash(Pathname(apiCall.url)) \o Search(apiCall.url)

\* ------------------------------------------------------------------------
\* LinkExtractor.detectPlacement applied to chains of ancestors
\* ------------------------------------------------------------------------
\* Longest chain of ancestors of an anchor.
MaxAncestors == 2

\* An ancestor element: its tag name and, for the class and the id
\* attribute, the keywords the lower-cased attribute value includes
\* (String.includes is a substring test; an absent attribute is '').
AncestorFrames ==
  {[tag |-> t, classes |-> c, id |-> i] :
     t \in {"div", "nav", "header", "footer"},
     c \in {{}, {"footer"}, {"nav"}, {"menu", "footer"}},
     i \in {{}, {"footer"}, {"header"}}}

\* detectPlacement with the navigation tests before the footer test.
RECURSIVE detectPlacementNavFirst(_, _)
detectPlacementNavFirst(ancestors, n) ==
  IF n > Len(ancestors) THEN "body"
  ELSE LET current == ancestors[n]
       IN  IF current.tag \in {"nav", "header"} THEN "navigation"
           ELSE IF \E keyword \in {"nav", "menu", "header"} :
                     keyword \in current.classes \/ keyword \in current.id
           THEN "navigation"
           ELSE IF \/ current.tag = "footer"
                   \/ "footer" \in current.classes
                   \/ "footer" \in current.id
           THEN "footer"
           ELSE detectPlacementNavFirst(ancestors, n + 1)

\* detectPlacement: ancestors[1] is $el.parent(), ancestors[n + 1] is the
\* parent of ancestors[n]; the loop ends above the last of them.
RECURSIVE detectPlacement(_, _)
detectPlacement(ancestors, n) ==
  IF n > Len(ancestors) THEN "body"
  ELSE LET current == ancestors[n]
       IN  IF \/ current.tag = "footer"
              \/ "footer" \in current.classes
              \/ "footer" \in current.id
           THEN "footer"
           ELSE IF current.tag \in {"nav", "header"} THEN "navigation"
           ELSE IF \E keyword \in {"nav", "menu", "header"} :
                     keyword \in current.classes \/ keyword \in current.id
           THEN "navigation"
           ELSE detectPlacement(ancestors, n + 1)

InitPlacement ==
  /\ config = CrawlConfig(1, 1)
  /\ urlManager = NewUrlManager
  /\ metadata = createInitialMetadata
  /\ linkBuffer = <<>>
  /\ memoryStorage = "none"
  /\ runPc = "start"
  /\ requestQueue = <<>>
  /\ handledRequestsCount = 0
  /\ db = NewDatabase
  /\ faults = 0
  /\ savePageCalls = EmptyBag
  /\ appended = EmptyBag
  /\ statusLog = <<"queued">>
  /\ \E ancestors \in SeqsUpTo(AncestorFrames, MaxAncestors) :
       apiCall = [op |-> "anchor", ancestors |-> ancestors,
                  placement |-> ""]

\* placement: this.detectPlacement($(el))
CallDetectPlacement ==
  /\ apiCall.op = "anchor"
  /\ apiCall' = [apiCall EXCEPT !.op = "placed",
                   !.placement = detectPlacement(apiCall.ancestors, 1)]
  /\ UNCHANGED <<config, statusLog, urlManager, metadata, linkBuffer,
                 memoryStorage, runPc, requestQueue, handledRequestsCount,
                 db, faults, savePageCalls, appended>>

NextPlacement == CallDetectPlacement

SpecPlacement == InitPlacement /\ [][NextPlacement]_vars

\* The ancestor matches the footer rule / a navigation rule.
FooterMatch(f) ==
  f.tag = "footer" \/ "footer" \in f.classes \/ "footer" \in f.id
NavigationMatch(f) ==
  \/ f.tag \in {"nav", "header"}
  \/ {"nav", "menu", "header"} \cap (f.classes \cup f.id) # {}

\* C27: the placement is decided by the nearest ancestor that matches any
\* rule: footer if that ancestor matches the footer rule, navigation
\* otherwise; body when no ancestor matches.
C27_NearestAncestorDecides ==
  apiCall.op = "placed" =>
    LET a == apiCall.ancestors
        matching == {n \in 1..Len(a) : FooterMatch(a[n]) \/ NavigationMatch(a[n])}
    IN  IF matching = {} THEN apiCall.placement = "body"
        ELSE LET nearest == CHOOSE n \in matching : \A k \in matching : n <= k
             IN  apiCall.placement =
                   IF FooterMatch(a[nearest]) THEN "footer" ELSE "navigation"

\* An anchor inside an outer nav whose nearer ancestor is a div of class
\* footer and of an id naming header: footer.
C27_Witness ==
  /\ apiCall.op = "placed"
  /\ Len(apiCall.ancestors) = 2
  /\ apiCall.ancestors[2].tag = "nav"
  /\ apiCall.ancestors[1].tag = "div"
  /\ "footer" \in apiCall.ancestors[1].classes
  /\ "header" \in apiCall.ancestors[1].id
  /\ apiCall.placement = "footer"

\* ------------------------------------------------------------------------
\* ContentExtractor.extract applied to one document, twice
\* ------------------------------------------------------------------------
\* Most headings of a document; latest reading of the clock.
MaxHeadings == 3
MaxClock == 2

\* The levels of the h1..h6 elements of a document, in document order.
HeadingSequences == SeqsUpTo(1..6, MaxHeadings)

\* `${tagName} after h${lastLevel} (skipped levels)`
HeadingError(level, lastLevel) == [tag |-> level, after |-> lastLevel]

\* The loop body with every jump of more than one level reported, down as
\* well as up.
HeadingStepBothWays(acc, level) ==
  [counts |-> [acc.counts EXCEPT ![level] = @ + 1],
   hierarchy |-> Append(acc.hierarchy, level),
   errors |-> IF acc.lastLevel > 0
                 /\ (level > acc.lastLevel + 1 \/ acc.lastLevel > level + 1)
              THEN Append(acc.errors, HeadingError(level, acc.lastLevel))
              ELSE acc.errors,
   lastLevel |-> level]

\* The body of the each() callback of extractHeadingStructure for one
\* heading element.
HeadingStep(acc, level) ==
  [counts |-> [acc.counts EXCEPT ![level] = @ + 1],
   hierarchy |-> Append(acc.hierarchy, level),
   errors |-> IF acc.lastLevel > 0 /\ level > acc.lastLevel + 1
              THEN Append(acc.errors, HeadingError(level, acc.lastLevel))
              ELSE acc.errors,
   lastLevel |-> level]

\* extractHeadingStructure: the callback over the elements from the n-th.
RECURSIVE HeadingLoop(_, _, _)
HeadingLoop(headings, n, acc) ==
  IF n > Len(headings) THEN acc
  ELSE HeadingLoop(headings, n + 1, HeadingStep(acc, headings[n]))

extractHeadingStructure(headings) ==
  HeadingLoop(headings, 1,
              [counts |-> [l \in 1..6 |-> 0], hierarchy |-> <<>>,
               errors |-> <<>>, lastLevel |-> 0])

\* ContentExtractor.extract: the heading fields and crawledAt of the
\* PageData it returns for a document, called when the clock reads now.
extract(headings, now) ==
  [headingCounts |-> extractHeadingStructure(headings).counts,
   headingHierarchy |-> extractHeadingStructure(headings).hierarchy,
   headingSequentialErrors |-> extractHeadingStructure(headings).errors,
   crawledAt |-> now]

InitContentExtractor ==
  /\ config = CrawlConfig(1, 1)
  /\ urlManager = NewUrlManager
  /\ metadata = createInitialMetadata
  /\ linkBuffer = <<>>
  /\ memoryStorage = "none"
  /\ runPc = "start"
  /\ requestQueue = <<>>
  /\ handledRequestsCount = 0
  /\ db = NewDatabase
  /\ faults = 0
  /\ savePageCalls = EmptyBag
  /\ appended = EmptyBag
  /\ statusLog = <<"queued">>
  /\ \E headings \in HeadingSequences :
       apiCall = [op |-> "document", headings |-> headings, now |-> 0,
                  first |-> extract(<<>>, 0), second |-> extract(<<>>, 0)]

\* Time passes (new Date() reads milliseconds).
ClockTicks ==
  /\ apiCall.now < MaxClock
  /\ apiCall' = [apiCall EXCEPT !.now = @ + 1]
  /\ UNCHANGED <<config, statusLog, urlManager, metadata, linkBuffer,
                 memoryStorage, runPc, requestQueue, handledRequestsCount,
                 db, faults, savePageCalls, appended>>

\* extract(url, html, $, context, response)
CallExtract ==
  /\ apiCall.op = "document"
  /\ apiCall' = [apiCall EXCEPT !.op = "extracted",
                   !.first = extract(apiCall.headings, apiCall.now)]
  /\ UNCHANGED <<config, statusLog, urlManager, metadata, linkBuffer,
                 memoryStorage, runPc, requestQueue, handledRequestsCount,
                 db, faults, savePageCalls, appended>>

\* extract called again with the same arguments.
CallExtractAgain ==
  /\ apiCall.op = "extracted"
  /\ apiCall' = [apiCall EXCEPT !.op = "extractedTwice",
                   !.second = extract(apiCall.headings, apiCall.now)]
  /\ UNCHANGED <<config, statusLog, urlManager, metadata, linkBuffer,
                 memoryStorage, runPc, requestQueue, handledRequestsCount,
                 db, faults, savePageCalls, appended>>

NextContentExtractor ==
  \/ ClockTicks
  \/ CallExtract
  \/ CallExtractAgain

SpecContentExtractor == InitContentExtractor /\ [][NextContentExtractor]_vars

\* The positions of the headings whose level exceeds the level of the
\* heading just before by more than one.
ForwardSkips(headings) ==
  {n \in 2..Len(headings) : headings[n] > headings[n - 1] + 1}

\* The sum of the six counts.
RECURSIVE SumCounts(_, _)
SumCounts(counts, l) ==
  IF l = 0 THEN 0 ELSE counts[l] + SumCounts(counts, l - 1)

\* C28: headingSequentialErrors has one entry per forward skip of more
\* than one level, in document order, and nothing else (none for the first
\* heading, none for a decrease); headingHierarchy is the sequence of the
\* headings; the six headingCounts count the headings of each level and sum
\* to the length of the hierarchy.
C28_HeadingErrorsForwardOnly ==
  apiCall.op \in {"extracted", "extractedTwice"} =>
    LET h == apiCall.headings
        r == apiCall.first
    IN  /\ Len(r.headingSequentialErrors) = Cardinality(ForwardSkips(h))
        /\ \A n \in ForwardSkips(h) :
             r.headingSequentialErrors[Cardinality({k \in ForwardSkips(h) : k <= n})]
               = HeadingError(h[n], h[n - 1])
        /\ r.headingHierarchy = h
        /\ \A l \in 1..6 :
             r.headingCounts[l] = Cardinality({n \in 1..Len(h) : h[n] = l})
        /\ SumCounts(r.headingCounts, 6) = Len(r.headingHierarchy)

\* A document h3, h1, h3 has been extracted: its first heading is deep, it
\* has a decrease of two levels and then one forward skip.
C28_Witness ==
  /\ apiCall.op = "extracted"
  /\ apiCall.headings = <<3, 1, 3>>
  /\ apiCall.first.headingSequentialErrors = <<HeadingError(3, 1)>>

\* C29: extract is deterministic: two invocations with the same arguments
\* return records that are equal in every field.
C29_ExtractDeterministic ==
  apiCall.op = "extractedTwice" => apiCall.second = apiCall.first

\* C30: when run() returns with status failed, every link edge extracted
\* from a page whose PageRecord is persisted is persisted too, the edges
\* that were waiting in the link buffer included.
C30_NoEdgeLostOnFailure ==
  (runPc = "returned" /\ metadata.status = "failed") =>
    \A url \in DOMAIN db.pages :
      \A n \in 1..Len(extractLinks(url)) :
        (\E i \in 1..Len(linkBuffer) : linkBuffer[i] = extractLinks(url)[n])
          => BagIn(extractLinks(url)[n], db.links)

\* The requests whose handling has ended.
HandledRequests == {k \in DOMAIN requestQueue : requestQueue[k].state = "handled"}

\* C31: every request taken from the queue is counted exactly once, as
\* crawled or as failed: when run() returns, stats.crawled + stats.failed
\* is the number of requests handled, also in a session without any
\* failure.
C31_EveryRequestCounted ==
  (runPc = "returned" /\ metadata.status = "completed" /\ faults = 0) =>
    metadata.stats.crawled + metadata.stats.failed
      = Cardinality(HandledRequests)

\* The step runs the link loop of request k again: an earlier attempt of
\* the request got past the loop and then threw on a storage write.
RetryRunsLinkLoop(k) ==
  /\ requestQueue[k].state = "fetching"
  /\ requestQueue[k].retryCount > 0
  /\ requestQueue[k].error = "write failed"
  /\ requestQueue'[k].state \in {"afterAddRequests", "afterSavePage",
                                 "afterFlush", "afterUpdate", "errored",
                                 "handled"}

\* C32: a retry of a page whose earlier attempt threw part-way leaves the
\* session state as one processing of the page does: the retry adds
\* nothing to stats.skipped, and no link edge is appended to the link
\* buffer more than once.
C32_RetryIdempotent ==
  /\ [][\A k \in DOMAIN requestQueue :
          RetryRunsLinkLoop(k) =>
            metadata'.stats.skipped = metadata.stats.skipped]_vars
  /\ [](\A l \in BagToSet(appended) : CopiesIn(l, appended) <= 1)

\* The processPage call of request k returns in this step.
ProcessPageReturns(k) ==
  /\ requestQueue[k].state \in {"afterSavePage", "afterFlush", "afterUpdate"}
  /\ requestQueue'[k].state = "handled"

\* C33 as stated: whenever a processPage call has completed the link
\* buffer holds less than a full batch, however the handlers interleave.
C33_BufferBelowBatch ==
  [][\A k \in DOMAIN requestQueue :
        ProcessPageReturns(k) => Len(linkBuffer') < LINK_BUFFER_SIZE]_vars

\* ------------------------------------------------------------------------
\* CrawlDatabase.saveError and getAllErrors called directly
\* ------------------------------------------------------------------------
\* Most rows of the errors table.
MaxErrorRows == 3

\* CrawlErrors recorded for the crawl of the session.
ApiErrors ==
  {[url |-> u, errorType |-> t] : u \in {Home, PageA}, t \in {"timeout", "network"}}

\* The database of a session whose metadata row is written; the connection
\* enforces foreign keys or not (PRAGMA foreign_keys).
InitErrors ==
  /\ config = CrawlConfig(1, 1)
  /\ urlManager = NewUrlManager
  /\ metadata = createInitialMetadata
  /\ linkBuffer = <<>>
  /\ memoryStorage = "none"
  /\ runPc = "start"
  /\ requestQueue = <<>>
  /\ handledRequestsCount = 0
  /\ \E fk \in BOOLEAN :
       db = [crawl_metadata |-> [status |-> "running",
                                 stats |-> createInitialMetadata.stats],
             pages |-> <<>>, links |-> EmptyBag, errors |-> <<>>,
             foreign_keys |-> fk]
  /\ faults = 0
  /\ savePageCalls = EmptyBag
  /\ appended = EmptyBag
  /\ statusLog = <<"queued">>
  /\ apiCall = [op |-> "none"]

\* The crawl_id values of crawl_metadata.
CrawlIds(d) == IF d.crawl_metadata = NoRow THEN {} ELSE {crawlId}

\* The row saveError binds: crawl_id and url both from error.url.
ErrorRow(error) ==
  [crawl_id |-> error.url, url |-> error.url, error_type |-> error.errorType]

\* INSERT INTO errors: with foreign keys enforced a crawl_id that is not in
\* crawl_metadata is refused and stmt.run throws.
saveErrorThrows(d, error) ==
  d.foreign_keys /\ ErrorRow(error).crawl_id \notin CrawlIds(d)

saveError(d, error) ==
  IF saveErrorThrows(d, error) THEN d
  ELSE [d EXCEPT !.errors = Append(@, ErrorRow(error))]

\* saveError(e) for an error of the session's crawl.
CallSaveError(error) ==
  /\ Len(db.errors) < MaxErrorRows
  /\ db' = saveError(db, error)
  /\ apiCall' = [op |-> "saveError", error |-> error,
                 threw |-> saveErrorThrows(db, error)]
  /\ UNCHANGED <<config, statusLog, urlManager, metadata, linkBuffer,
                 memoryStorage, runPc, requestQueue, handledRequestsCount,
                 faults, savePageCalls, appended>>

\* getAllErrors(id) for the session's crawl id or for a page URL.
CallGetAllErrors(id) ==
  /\ apiCall' = [op |-> "getAllErrors", id |-> id,
                 result |-> getAllErrors(db, id)]
  /\ UNCHANGED <<config, statusLog, urlManager, metadata, linkBuffer,
                 memoryStorage, runPc, requestQueue, handledRequestsCount,
                 db, faults, savePageCalls, appended>>

NextErrors ==
  \/ \E error \in ApiErrors : CallSaveError(error)
  \/ \E id \in {crawlId, Home, PageA} : CallGetAllErrors(id)

SpecErrors == InitErrors /\ [][NextErrors]_vars

\* C34: after saveError(e) for an error of crawl c, getAllErrors(c) and the
\* errors of getCrawlMetadata(c) contain e.
C34_ErrorsRoundTrip ==
  apiCall.op = "saveError" =>
    /\ \E i \in 1..Len(getAllErrors(db, crawlId)) :
         getAllErrors(db, crawlId)[i] = apiCall.error
    /\ \E i \in 1..Len(getCrawlMetadata(db, crawlId).errors) :
         getCrawlMetadata(db, crawlId).errors[i] = apiCall.error

\* ------------------------------------------------------------------------
\* Depth along the discovery edge
\* ------------------------------------------------------------------------
\* The URLs that enter the frontier in this step.
NewlyDiscovered ==
  (DOMAIN urlManager'.discovered) \ (DOMAIN urlManager.discovered)

\* Request k's handler runs its link loop in this step, the page it handles
\* is in the frontier, and u enters the frontier one level below that page.
RegisteredBy(u, k) ==
  /\ requestQueue[k].state = "fetching"
  /\ requestQueue'[k].state # "fetching"
  /\ isDiscovered(urlManager, requestQueue[k].url)
  /\ normalizeUrl(requestQueue[k].url) \in urlManager'.sourcePagesMap[u]
  /\ urlManager'.discovered[u] = 1 + getDepth(urlManager, requestQueue[k].url)

\* run() registers the start URL at depth 0 in this step.
RegisteredByRun(u) ==
  /\ runPc = "markRunning"
  /\ u = normalizeUrl(config.startUrl)
  /\ urlManager'.discovered[u] = 0

\* The depth of a persisted page is the depth of its frontier entry, and
\* only the start URL's record has depth 0.
PageDepthIsFrontierDepth ==
  \A url \in DOMAIN db.pages :
     /\ isDiscovered(urlManager, url)
     /\ db.pages[url].depth = urlManager.discovered[normalizeUrl(url)]
     /\ db.pages[url].depth = 0 <=>
          normalizeUrl(url) = normalizeUrl(config.startUrl)

\* C35: every URL enters the frontier either as the start URL at depth 0
\* or from the link loop of a registered page at that page's depth plus 1,
\* the depth of an entry never changes afterwards, and every persisted page
\* carries the depth of its entry: a page other than the start URL's has
\* 1 + the depth of the page that first registered it, never the default 0.
C35_DepthAlongDiscoveryEdge ==
  /\ [][\A u \in NewlyDiscovered :
          \/ RegisteredByRun(u)
          \/ \E k \in DOMAIN requestQueue : RegisteredBy(u, k)]_vars
  /\ [][\A u \in DOMAIN urlManager.discovered :
          /\ u \in DOMAIN urlManager'.discovered
          /\ urlManager'.discovered[u] = urlManager.discovered[u]]_vars
  /\ []PageDepthIsFrontierDepth

\* The start page, a page it registered and a page that one registered are
\* all persisted, at depths 0, 1 and 2, and the deepest one names the start
\* URL in a link.
C35_Witness ==
  /\ {Home, PageA, PageC} \subseteq DOMAIN db.pages
  /\ db.pages[Home].depth = 0
  /\ db.pages[PageA].depth = 1
  /\ db.pages[PageC].depth = 2
  /\ normalizeUrl(PageA) \in urlManager.sourcePagesMap[normalizeUrl(PageC)]

\* ------------------------------------------------------------------------
\* Visited URLs at the end of run()
\* ------------------------------------------------------------------------
\* The visited entry v has a row in pages.
HasPageRecord(v) == \E url \in DOMAIN db.pages : normalizeUrl(url) = v

\* The visited entry v has an error in the session's error list.
HasCrawlError(v) ==
  \E i \in 1..Len(metadata.errors) : normalizeUrl(metadata.errors[i].url) = v

\* C36: when run() has returned, every URL of the frontier's visited set
\* has a persisted page record or a recorded crawl error.
C36_VisitedAccounted ==
  runPc = "returned" =>
    \A v \in urlManager.visited : HasPageRecord(v) \/ HasCrawlError(v)

====
